---- MODULE Spec2Model ----
(***************************************************************************)
(* tCamMiniAnalog firmware: the acquisition task (lep_task), the video    *)
(* task (vid_task), the control task (ctrl_task) and the boot sequence    *)
(* (app_main), with the ping-pong frame store and the task notification   *)
(* words they share.                                                       *)
(*                                                                         *)
(* Each task is a process with a program position (main_pc, lep_pc,       *)
(* vid_pc, ctrl_pc).  A step is atomic between two accesses to shared      *)
(* state or two blocking calls.  Outcomes of the hardware (driver init,    *)
(* segment transfer) are chosen nondeterministically.                      *)
(***************************************************************************)
EXTENDS Integers, Sequences, FiniteSets, TLC

(***************************************************************************)
(* Program constants                                                       *)
(***************************************************************************)
\* lep_task.c:53-56
STATE_INIT == 0
STATE_RUN == 1
STATE_RE_INIT == 2
STATE_ERROR == 3

\* lep_task.c:165
VSYNC_MISS_LIMIT == 36

\* lep_task.h is not among the sources: the two limits are free positive
\* parameters of the model.
LEP_SYNC_FAIL_FAULT_LIMIT == 2
LEP_RESET_FAIL_RETRY_SECS == 2

\* ctrl_task.h:39-45
CTRL_EVAL_MSEC == 50
CTRL_BTN_LONG_PRESS_MSEC == 3000
CTRL_FAULT_BLINK_ON_MSEC == 200
CTRL_FAULT_BLINK_OFF_MSEC == 300
CTRL_FAULT_IDLE_MSEC == 2000

\* ctrl_task.h:48-54
CTRL_FAULT_NONE == 0
CTRL_FAULT_ESP32_INIT == 1
CTRL_FAULT_PERIPH_INIT == 2
CTRL_FAULT_MEM_INIT == 3
CTRL_FAULT_LEP_CCI == 4
CTRL_FAULT_LEP_VOSPI == 5
CTRL_FAULT_LEP_SYNC == 6

\* ctrl_task.c:46-49
CTRL_LED_OFF == 0
CTRL_LED_RED == 1
CTRL_LED_YEL == 2
CTRL_LED_GRN == 3

\* ctrl_task.c:52-55
CTRL_LED_ST_SOLID == 0
CTRL_LED_ST_FLT_ON == 1
CTRL_LED_ST_FLT_OFF == 2
CTRL_LED_ST_FLT_IDLE == 3

\* ctrl_task.c:58-60
CTRL_ST_STARTUP == 0
CTRL_ST_RUN == 1
CTRL_ST_FAULT == 2

\* Notification bits (ctrl_task.h:61-63, video_task.h:42-47), as set members.
CTRL_NOTIFY_STARTUP_DONE == "STARTUP_DONE"
CTRL_NOTIFY_FAULT == "FAULT"
CTRL_NOTIFY_FAULT_CLEAR == "FAULT_CLEAR"
VID_NOTIFY_LEP_FRAME_MASK_1 == "LEP_FRAME_1"
VID_NOTIFY_LEP_FRAME_MASK_2 == "LEP_FRAME_2"
VID_NOTIFY_PARM_CHANGE_MASK == "PARM_CHANGE"
VID_NOTIFY_PARM_SELECT_MASK == "PARM_SELECT"

\* video_task.c:55-58
NUM_PARMS == 3
PARM_INDEX_MARKER == 0
PARM_INDEX_EMISSIVITY == 1
PARM_INDEX_UNITS == 2

\* video_task.c:66-68
NUM_M_PARM_VALS == 4
M_PARM_MARKER_MASK == 1
M_PARM_PALETTE_MASK == 2

\* video_task.c:71-73; the C array is indexed from 0, the sequence from 1
NUM_E_PARM_VALS == 23
parm_e_value == <<10, 20, 30, 40, 50, 60, 70, 80, 82, 84, 86, 88,
                  90, 91, 92, 93, 94, 95, 96, 97, 98, 99, 100>>

\* video_task.c:78
NUM_U_PARM_VALS == 2

\* video_task.c:83
PARM_ENTRY_TIMEOUT_MSEC == CTRL_BTN_LONG_PRESS_MSEC + 7000

\* render.h:58-61, SF_DS and SF_QS (a name cannot begin with SF_ here)
RENDER_SF_DS == 3
RENDER_SF_QS == 5
DIV_DS == RENDER_SF_DS + 1
DIV_QS == RENDER_SF_QS + 3

\* ps_utilities.h:40-42
PS_PARM_PALETTE_MARKER == 0
PS_PARM_EMISSIVITY == 1
PS_PARM_UNITS == 2

\* ps_utilities.h:45-47
PS_PARAM_PALETTE_MARKER_DEF == 0
PS_PARAM_EMISSIVITY_DEF == 97
PS_PARAM_UNITS_DEF == 0

(***************************************************************************)
(* Bounds of the model                                                     *)
(***************************************************************************)
\* ctrl_fault_led_count and the observed phase count saturate here
MaxLedUnderflow == 2
MaxPhases == 8
\* the size of a raw frame in samples
LEP_WIDTH == 2
LEP_HEIGHT == 2
\* button presses of a run of the parameter session
MaxPresses == 4
\* emissivity values looked up: -1 .. MaxEmissivity
MaxEmissivity == 101
MaxFaultCalls == 2

\* render.h:37-39
IMG_BUF_MULT_FACTOR == 2
IMG_BUF_WIDTH == IMG_BUF_MULT_FACTOR * LEP_WIDTH
IMG_BUF_HEIGHT == IMG_BUF_MULT_FACTOR * LEP_HEIGHT

(***************************************************************************)
(* State                                                                   *)
(***************************************************************************)
VARIABLES
  main_pc,                  \* app_main position
  sft,                      \* per caller: ctrl_set_fault_type call in progress
  lep_pc,                   \* lep_task position
  task_state,               \* lep_task locals
  vid_buf_index,
  vsync_count,
  sync_fail_count,
  reset_fail_count,
  lep_mutex,                \* vid_lep_buffer[k].lep_mutex holder
  lep_buf,                  \* vid_lep_buffer[k] contents
  rend_fb,                  \* rend_fbP[k] contents
  drv_fb,                   \* video driver frame buffer contents
  vid_pc,                   \* vid_task position
  vid_notif,                \* vid_task notification word
  notify_image_1,
  notify_image_2,
  vid_render_torn,          \* slot rewritten while it is being rendered
  ctrl_pc,                  \* ctrl_task position
  ctrl_notif,               \* ctrl_task notification word
  ctrl_state,
  ctrl_pre_activity_state,
  ctrl_led_state,
  ctrl_led_timer,
  ctrl_fault_led_count,
  ctrl_fault_type,
  led,                      \* colour on the two LED pins
  prev_btn,                 \* ctrl_debounce_button statics
  btn_down,
  btn_timer,
  btn_short_press,          \* outputs of the last ctrl_debounce_button call
  btn_long_press,
  notify_parm_val_change,   \* vid_task parameter session
  notify_parm_sel_change,
  cur_parm_index,
  cur_parm_max_index,
  cur_parm_value,
  prev_parm_value,
  parm_entry_timeout,
  gui_state,                \* the options the parameter session edits
  lep_emissivity,           \* emissivity handed to the sensor driver
  ps,                       \* ps_utilities local values
  nvs,                      \* flash contents under the three keys
  \* observers (history of events, read by no action of the program)
  obs_cycle,                \* buffer operations of the notification being handled
  obs_order,                \* acquisition order of the frames in the buffers
  obs_miss_run,             \* failed transfers since the last frame or pause
  obs_escalation,           \* "none", "hit": the failure limit was reached,
                            \* "reinit_ok": and a ReInit has succeeded since
  obs_reset_since_frame,    \* a reset was attempted since the last frame
  obs_error_idles,          \* idle periods of STATE_ERROR since it was entered
  obs_bring_up,             \* outcome of the last lepton_init(): "none", "ok", "fail"
  obs_sync,                 \* resynchronisation pauses and synchronisation faults
                            \* since the last frame
  obs_ready,                \* the slot last written and the slot last signalled
  obs_red_phases,           \* red-on phases of the current blink burst
  obs_press,                \* ticks and events of the current button press
  obs_parm,                 \* events the parameter session has handled
  obs_ps,                   \* the last call of the storage interface
  obs_render,               \* the renders of the frame since it was written
  lep_frame,                \* a raw-frame slot: samples, minimum, maximum
  rend_img,                 \* the raster render_lep_data has filled
  obs_scale,                \* the last sample scaled to 8 bits
  obs_notif                 \* notifications sent, polled and handled

mainVars == <<main_pc>>
lepVars == <<lep_pc, task_state, vid_buf_index, vsync_count, sync_fail_count,
             reset_fail_count>>
storeVars == <<lep_mutex, lep_buf, rend_fb, drv_fb>>
parmVars == <<notify_parm_val_change, notify_parm_sel_change, cur_parm_index,
              cur_parm_max_index, cur_parm_value, prev_parm_value,
              parm_entry_timeout, gui_state>>
vidVars == <<vid_pc, notify_image_1, notify_image_2, vid_render_torn, parmVars>>
ctrlLedVars == <<ctrl_led_state, ctrl_led_timer, ctrl_fault_led_count, led>>
btnVars == <<prev_btn, btn_down, btn_timer, btn_short_press, btn_long_press>>
ctrlVars == <<ctrl_pc, ctrl_state, ctrlLedVars, btnVars>>
sysVars == <<ps, nvs, lep_emissivity>>
faultVars == <<sft, ctrl_fault_type, ctrl_pre_activity_state, ctrl_notif>>
obsAcqVars == <<obs_miss_run, obs_escalation, obs_reset_since_frame, obs_error_idles,
               obs_bring_up, obs_sync>>
obsLepVars == <<obsAcqVars, obs_ready>>
obsUiVars == <<obs_press, obs_parm, obs_ps, obs_render>>
obsVars == <<obs_cycle, obs_order, obsLepVars, obs_red_phases, obsUiVars>>
pixVars == <<lep_frame, rend_img, obs_scale>>
frameVars == <<pixVars, obs_notif>>
vars == <<mainVars, sysVars, lepVars, storeVars, vidVars, vid_notif, ctrlVars, faultVars,
          obsVars, frameVars>>

Callers == {"main", "lep"}
SftIdle == [step |-> "idle", f |-> CTRL_FAULT_NONE]

(***************************************************************************)
(* State after reset: statics are zero, no task exists but app_main,       *)
(* heap buffers are not initialised.                                       *)
(***************************************************************************)
\* a raw frame and a raster, row by row from index 0, before anything is
\* written to them
FrameZero == [buf |-> [i \in 0..(LEP_WIDTH * LEP_HEIGHT - 1) |-> 0],
              lep_min_val |-> 0, lep_max_val |-> 0]
ImgZero == [i \in 0..(IMG_BUF_WIDTH * IMG_BUF_HEIGHT - 1) |-> 0]
RenderInputZero == [black_hot_palette |-> FALSE, display_interp_enable |-> FALSE,
                    agc_enabled |-> FALSE]

\* ps_utilities.c:57-59, the RAM copy of the stored parameters
PsZero == [val_palette_marker |-> 0, val_emissivity |-> 0, val_units |-> 0]

\* flash namespace of ps_utilities.c: one entry per key, <<>> when the key
\* has never been written (ESP_ERR_NVS_NOT_FOUND), <<v>> otherwise
NvsFirstBoot == [palette_marker |-> <<>>, emissivity |-> <<>>, units |-> <<>>]

\* render.h:66-77, the fields of gui_state_t the firmware assigns
\* (agc_enabled, is_radiometric and rad_high_res are copied from the frame's
\* telemetry on every render and are inputs of the render pipeline below)
GuiZero == [black_hot_palette |-> FALSE, display_interp_enable |-> FALSE,
            min_max_enable |-> FALSE, spotmeter_enable |-> FALSE,
            temp_unit_C |-> FALSE]

\* the notification types of vid_task and of ctrl_task
\* obs_ready holds a slot as a one-element sequence; before the first frame:
NoSlot == <<>>

\* obs_sync: n, the number of the last pause among the consecutive pauses
\* since the last frame or the last reported synchronisation fault;
\* reported, that pause reported the fault; faulted, a synchronisation fault
\* was reported since the last frame
\* The frames in the buffers by acquisition order.  A frame is the rank of
\* its acquisition among the frames still in a buffer or on the output (1 the
\* oldest), 0 is no frame: slot, the frame in each raw slot; rend, the frame
\* rendered in each raster; last, the frame on the video output; shown, the
\* newest frame that has been on the video output.  The order is kept by the
\* stepwise frame path of lep_task (LepGetFrameBegin).
OrderNone == [slot |-> [k \in 0..1 |-> 0], rend |-> [k \in 0..1 |-> 0],
              last |-> 0, shown |-> 0]

OrderValues(o) == {o.slot[0], o.slot[1], o.rend[0], o.rend[1], o.last, o.shown} \ {0}

OrderRank(v, S) == IF v = 0 THEN 0 ELSE Cardinality({x \in S : x <= v})

OrderNorm(o) ==
  LET S == OrderValues(o)
  IN  [slot |-> [k \in 0..1 |-> OrderRank(o.slot[k], S)],
       rend |-> [k \in 0..1 |-> OrderRank(o.rend[k], S)],
       last |-> OrderRank(o.last, S),
       shown |-> OrderRank(o.shown, S)]

\* a new frame is written to slot k
OrderAcquired(o, k) ==
  OrderNorm([o EXCEPT !.slot[k] = Cardinality(OrderValues(o)) + 1])

\* slot k has been rendered to raster k
OrderRendered(o, k) == OrderNorm([o EXCEPT !.rend[k] = o.slot[k]])

\* raster k is copied to the video output; a raster never rendered is no frame
OrderDisplayed(o, k) ==
  LET f == o.rend[k]
  IN  IF f = 0 THEN o
      ELSE OrderNorm([o EXCEPT !.last = f, !.shown = IF f > @ THEN f ELSE @])

SyncZero == [n |-> 0, reported |-> FALSE, faulted |-> FALSE]

SyncPaused(o, reported) ==
  [n |-> IF o.reported THEN 1
         ELSE IF o.n > LEP_SYNC_FAIL_FAULT_LIMIT + 1 THEN o.n ELSE o.n + 1,
   reported |-> reported,
   faulted |-> o.faulted \/ reported]

VidTypes == {VID_NOTIFY_LEP_FRAME_MASK_1, VID_NOTIFY_LEP_FRAME_MASK_2,
             VID_NOTIFY_PARM_CHANGE_MASK, VID_NOTIFY_PARM_SELECT_MASK}
CtrlTypes == {CTRL_NOTIFY_STARTUP_DONE, CTRL_NOTIFY_FAULT, CTRL_NOTIFY_FAULT_CLEAR}
NotifyTypes == VidTypes \cup CtrlTypes

\* The history of the notifications of the types in watch.  Per type: sent,
\* the xTaskNotify calls since the receiver's last poll; got, the calls the
\* receiver has read from its word and not yet handled; reads, the polls
\* that have read them; served, the calls the handling of the type has
\* served in the receiver's present loop iteration.  spurious: the code that handles a type has run with no call
\* of that type read and not yet handled.  Per receiver: the polls since the
\* start of its loop iteration.  Counts stop at 2.  calls: the fault reports
\* and fault clears sent to ctrl_task so far, up to MaxFaultCalls.
NotifZero ==
  [watch |-> {},
   sent |-> [T \in NotifyTypes |-> 0], got |-> [T \in NotifyTypes |-> 0],
   reads |-> [T \in NotifyTypes |-> 0],
   served |-> [T \in NotifyTypes |-> 0], spurious |-> FALSE,
   vid_polls |-> 0, ctrl_polls |-> 0, calls |-> 0]

NotifCount(n) == IF n > 2 THEN 2 ELSE n

\* xTaskNotify(handle, bit, eSetBits) for every bit of bits
NotifSent(o, bits) ==
  [o EXCEPT !.sent = [T \in NotifyTypes |->
                        IF T \in bits \cap o.watch THEN NotifCount(@[T] + 1) ELSE @[T]],
            !.calls = IF bits \cap o.watch \cap {CTRL_NOTIFY_FAULT, CTRL_NOTIFY_FAULT_CLEAR} # {}
                        THEN (IF @ < MaxFaultCalls THEN @ + 1 ELSE @) ELSE @]

\* xTaskNotifyWait(0x00, 0xFFFFFFFF, &notification_value, 0) by the receiver
\* of the types Ts
NotifPolled(o, Ts) ==
  IF ~(Ts \subseteq o.watch) THEN o
  ELSE [o EXCEPT
          !.got = [T \in NotifyTypes |->
                     IF T \in Ts THEN NotifCount(@[T] + o.sent[T]) ELSE @[T]],
          !.reads = [T \in NotifyTypes |->
                       IF T \in Ts /\ o.sent[T] > 0 THEN NotifCount(@[T] + 1) ELSE @[T]],
          !.sent = [T \in NotifyTypes |-> IF T \in Ts THEN 0 ELSE @[T]],
          !.vid_polls = IF Ts = VidTypes THEN NotifCount(@ + 1) ELSE @,
          !.ctrl_polls = IF Ts = CtrlTypes THEN NotifCount(@ + 1) ELSE @]

\* the receiver runs the code that handles the types Ts, once
NotifHandled(o, Ts) ==
  IF ~(Ts \subseteq o.watch) THEN o
  ELSE [o EXCEPT
          !.served = [T \in NotifyTypes |-> IF T \in Ts THEN o.got[T] ELSE @[T]],
          !.got = [T \in NotifyTypes |-> IF T \in Ts THEN 0 ELSE @[T]],
          !.reads = [T \in NotifyTypes |-> IF T \in Ts THEN 0 ELSE @[T]],
          !.spurious = @ \/ \E T \in Ts : o.got[T] = 0]

\* the receiver's loop iteration ends
NotifLoopEnd(o, Ts) ==
  IF ~(Ts \subseteq o.watch) THEN o
  ELSE [o EXCEPT !.served = [T \in NotifyTypes |-> IF T \in Ts THEN 0 ELSE @[T]],
                 !.vid_polls = IF Ts = VidTypes THEN 0 ELSE @,
                 !.ctrl_polls = IF Ts = CtrlTypes THEN 0 ELSE @]

InitAll(n, watch) ==
  /\ ps = PsZero
  /\ nvs = n
  /\ lep_emissivity = 0
  /\ prev_btn = FALSE
  /\ btn_down = FALSE
  /\ btn_timer = 0
  /\ btn_short_press = FALSE
  /\ btn_long_press = FALSE
  /\ notify_parm_val_change = FALSE
  /\ notify_parm_sel_change = FALSE
  /\ cur_parm_index = 0
  /\ cur_parm_max_index = 0
  /\ cur_parm_value = 0
  /\ prev_parm_value = 0
  /\ parm_entry_timeout = 0
  /\ gui_state = GuiZero
  /\ obs_press = [held |-> 0, longs |-> 0, shorts |-> 0, presses |-> 0,
                  sample |-> FALSE, before |-> FALSE]
  /\ obs_parm = [longs |-> 0, last |-> "none", entry |-> 0, touched |-> FALSE]
  /\ obs_ps = [op |-> "none", index |-> 0, val |-> 0, ps |-> PsZero, nvs |-> n, ret |-> 0]
  /\ obs_render = [calls |-> 0, loaded |-> FrameZero, g |-> RenderInputZero,
                   first_img |-> ImgZero, other_img |-> ImgZero, writes |-> <<>>]
  /\ lep_frame = FrameZero
  /\ rend_img = ImgZero
  /\ obs_scale = [v |-> 0, min_val |-> 0, max_val |-> 0, t8 |-> 0, scaled |-> FALSE]
  /\ obs_notif = [NotifZero EXCEPT !.watch = watch]
  /\ main_pc = "create_ctrl"
  /\ sft = [c \in Callers |-> SftIdle]
  /\ lep_pc = "not_created"
  /\ task_state = STATE_INIT
  /\ vid_buf_index = 0
  /\ vsync_count = 0
  /\ sync_fail_count = 0
  /\ reset_fail_count = 0
  /\ lep_mutex = [k \in 0..1 |-> "free"]
  /\ lep_buf = [k \in 0..1 |-> "uninit"]
  /\ rend_fb = [k \in 0..1 |-> "uninit"]
  /\ drv_fb = "blank"
  /\ vid_pc = "not_created"
  /\ vid_notif = {}
  /\ notify_image_1 = FALSE
  /\ notify_image_2 = FALSE
  /\ vid_render_torn = FALSE
  /\ ctrl_pc = "not_created"
  /\ ctrl_notif = {}
  /\ ctrl_state = 0
  /\ ctrl_pre_activity_state = 0
  /\ ctrl_led_state = 0
  /\ ctrl_led_timer = 0
  /\ ctrl_fault_led_count = 0
  /\ ctrl_fault_type = CTRL_FAULT_NONE
  /\ led = CTRL_LED_OFF
  /\ obs_cycle = [k |-> -1, ops |-> <<>>]
  /\ obs_order = OrderNone
  /\ obs_miss_run = 0
  /\ obs_escalation = "none"
  /\ obs_reset_since_frame = FALSE
  /\ obs_error_idles = 0
  /\ obs_bring_up = "none"
  /\ obs_sync = SyncZero
  /\ obs_ready = [written |-> NoSlot, signalled |-> NoSlot]
  /\ obs_red_phases = 0

\* first boot: the flash namespace is empty
InitNvs(n) == InitAll(n, {})

Init == InitNvs(NvsFirstBoot)

\* what the flash can hold at boot: nothing, or what an earlier run (or an
\* earlier firmware) has stored; 75 is an emissivity outside parm_e_value
NvsContents ==
  {NvsFirstBoot,
   [palette_marker |-> <<3>>, emissivity |-> <<75>>, units |-> <<1>>],
   [palette_marker |-> <<0>>, emissivity |-> <<99>>, units |-> <<0>>]}

InitStored == \E n \in NvsContents : InitNvs(n)

(***************************************************************************)
(* ctrl_set_fault_type(f), executed in the context of the caller.          *)
(* Three shared accesses: the store to ctrl_fault_type, the copy of        *)
(* ctrl_state to ctrl_pre_activity_state, the xTaskNotify.                 *)
(***************************************************************************)
\* first access, part of the caller's step that makes the call
SetFaultCall(c, f) ==
  /\ ctrl_fault_type' = f
  /\ sft' = [sft EXCEPT ![c] = [step |-> IF f = CTRL_FAULT_NONE THEN "notify" ELSE "save",
                                f |-> f]]

SetFaultSave(c) ==
  /\ sft[c].step = "save"
  /\ ctrl_pre_activity_state' = ctrl_state
  /\ sft' = [sft EXCEPT ![c].step = "notify"]
  /\ UNCHANGED <<mainVars, sysVars, lepVars, storeVars, vidVars, vid_notif, ctrlVars,
                 ctrl_fault_type, ctrl_notif, obsVars, frameVars>>

SetFaultNotify(c) ==
  /\ sft[c].step = "notify"
  /\ ctrl_notif' = ctrl_notif \cup
        {IF sft[c].f = CTRL_FAULT_NONE THEN CTRL_NOTIFY_FAULT_CLEAR ELSE CTRL_NOTIFY_FAULT}
  /\ sft' = [sft EXCEPT ![c] = SftIdle]
  /\ obs_notif' = NotifSent(obs_notif,
        {IF sft[c].f = CTRL_FAULT_NONE THEN CTRL_NOTIFY_FAULT_CLEAR ELSE CTRL_NOTIFY_FAULT})
  /\ UNCHANGED <<mainVars, sysVars, lepVars, storeVars, vidVars, vid_notif, ctrlVars,
                 ctrl_fault_type, ctrl_pre_activity_state, obsVars, pixVars>>

ctrl_set_fault_type == \E c \in Callers : SetFaultSave(c) \/ SetFaultNotify(c)

NoFaultCall == UNCHANGED <<sft, ctrl_fault_type>>

(***************************************************************************)
(* ps_utilities.c: the persistent parameters.  The RAM copy is the record  *)
(* ps, the flash namespace the record nvs.  Writes to the flash are taken  *)
(* to succeed: a failed write is only logged, and the flash is not read    *)
(* again before the next boot.                                             *)
(***************************************************************************)
\* one key of ps_init: the stored value, or the default on first use
PsLoad(entry, def) == IF entry = <<>> THEN def ELSE entry[1]

ps_init(n) ==
  LET pm == PsLoad(n.palette_marker, PS_PARAM_PALETTE_MARKER_DEF)
      em == PsLoad(n.emissivity, PS_PARAM_EMISSIVITY_DEF)
      un == PsLoad(n.units, PS_PARAM_UNITS_DEF)
  IN  [ps |-> [val_palette_marker |-> pm, val_emissivity |-> em, val_units |-> un],
       nvs |-> [palette_marker |-> <<pm>>, emissivity |-> <<em>>, units |-> <<un>>]]

\* a read that falls back on the units for an unsupported index
PsGetFallsThrough(p, index) ==
  CASE index = PS_PARM_PALETTE_MARKER -> p.val_palette_marker
    [] index = PS_PARM_EMISSIVITY     -> p.val_emissivity
    [] OTHER                          -> p.val_units

ps_get_parm(p, index) ==
  CASE index = PS_PARM_PALETTE_MARKER -> p.val_palette_marker
    [] index = PS_PARM_EMISSIVITY     -> p.val_emissivity
    [] index = PS_PARM_UNITS          -> p.val_units
    [] OTHER                          -> 0

\* a write whose units case assigns the emissivity
PsSetWrongField(p, index, val) ==
  CASE index = PS_PARM_PALETTE_MARKER -> [p EXCEPT !.val_palette_marker = val]
    [] index = PS_PARM_EMISSIVITY     -> [p EXCEPT !.val_emissivity = val]
    [] index = PS_PARM_UNITS          -> [p EXCEPT !.val_emissivity = val]
    [] OTHER                          -> p

\* the RAM half of ps_set_parm
ps_set_parm(p, index, val) ==
  CASE index = PS_PARM_PALETTE_MARKER -> [p EXCEPT !.val_palette_marker = val]
    [] index = PS_PARM_EMISSIVITY     -> [p EXCEPT !.val_emissivity = val]
    [] index = PS_PARM_UNITS          -> [p EXCEPT !.val_units = val]
    [] OTHER                          -> p

\* the flash half of ps_set_parm
nvs_set_i32(n, index, val) ==
  CASE index = PS_PARM_PALETTE_MARKER -> [n EXCEPT !.palette_marker = <<val>>]
    [] index = PS_PARM_EMISSIVITY     -> [n EXCEPT !.emissivity = <<val>>]
    [] index = PS_PARM_UNITS          -> [n EXCEPT !.units = <<val>>]
    [] OTHER                          -> n

\* the arguments given to the storage interface: the supported indexes and
\* one below and above, values of either sign
PsIndexes == (PS_PARM_PALETTE_MARKER - 1)..(PS_PARM_UNITS + 1)
PsValues == {-1, 0, PS_PARAM_EMISSIVITY_DEF}

\* a call of ps_set_parm(index, val) by a task, after ps_init
PsSetParm ==
  /\ vid_pc # "not_created"
  /\ \E index \in PsIndexes, val \in PsValues :
       /\ ps' = ps_set_parm(ps, index, val)
       /\ nvs' = nvs_set_i32(nvs, index, val)
       /\ obs_ps' = [op |-> "set", index |-> index, val |-> val, ps |-> ps,
                     nvs |-> nvs, ret |-> 0]
  /\ UNCHANGED <<mainVars, lep_emissivity, lepVars, storeVars, vidVars, vid_notif,
                 ctrlVars, faultVars, obs_cycle, obs_order, obsLepVars, obs_red_phases, obs_press,
                 obs_parm, obs_render, frameVars>>

\* a call of ps_get_parm(index) by a task, after ps_init
PsGetParm ==
  /\ vid_pc # "not_created"
  /\ \E index \in PsIndexes :
       obs_ps' = [op |-> "get", index |-> index, val |-> 0, ps |-> ps, nvs |-> nvs,
                  ret |-> ps_get_parm(ps, index)]
  /\ UNCHANGED <<mainVars, sysVars, lepVars, storeVars, vidVars, vid_notif,
                 ctrlVars, faultVars, obs_cycle, obs_order, obsLepVars, obs_red_phases, obs_press,
                 obs_parm, obs_render, frameVars>>

(***************************************************************************)
(* app_main                                                                *)
(***************************************************************************)
MainCreateCtrl ==
  /\ main_pc = "create_ctrl"
  /\ main_pc' = "esp_io_init"
  /\ ctrl_pc' = "init"
  /\ UNCHANGED <<sysVars, lepVars, storeVars, vidVars, vid_notif, ctrl_state, ctrlLedVars, btnVars,
                 faultVars, obsVars, frameVars>>

\* one boot step: on failure report the fault and spin forever
BootStep(here, next, halt, fault) ==
  /\ main_pc = here
  /\ \E ok \in BOOLEAN :
       IF ok THEN /\ main_pc' = next
                  /\ NoFaultCall
             ELSE /\ main_pc' = halt
                  /\ SetFaultCall("main", fault)
  /\ UNCHANGED <<sysVars, lepVars, storeVars, vidVars, vid_notif, ctrlVars,
                 ctrl_pre_activity_state, ctrl_notif, obsVars, frameVars>>

MainEspIoInit ==
  BootStep("esp_io_init", "peripheral_init", "halt_esp32", CTRL_FAULT_ESP32_INIT)

\* system_peripheral_init fails only when ps_init does; ps_init fails before
\* it reads any key, so the RAM copy and the flash stay as they were
MainPeripheralInit ==
  /\ main_pc = "peripheral_init"
  /\ \E ok \in BOOLEAN :
       IF ok THEN /\ main_pc' = "buffer_init"
                  /\ NoFaultCall
                  /\ ps' = ps_init(nvs).ps
                  /\ nvs' = ps_init(nvs).nvs
             ELSE /\ main_pc' = "halt_periph"
                  /\ SetFaultCall("main", CTRL_FAULT_PERIPH_INIT)
                  /\ UNCHANGED <<ps, nvs>>
  /\ UNCHANGED <<lep_emissivity, lepVars, storeVars, vidVars, vid_notif, ctrlVars,
                 ctrl_pre_activity_state, ctrl_notif, obsVars, frameVars>>

MainBufferInit ==
  BootStep("buffer_init", "startup_done", "halt_mem", CTRL_FAULT_MEM_INIT)

MainStartupDone ==
  /\ main_pc = "startup_done"
  /\ ctrl_notif' = ctrl_notif \cup {CTRL_NOTIFY_STARTUP_DONE}
  /\ main_pc' = "create_vid"
  /\ obs_notif' = NotifSent(obs_notif, {CTRL_NOTIFY_STARTUP_DONE})
  /\ UNCHANGED <<sysVars, lepVars, storeVars, vidVars, vid_notif, ctrlVars, sft,
                 ctrl_fault_type, ctrl_pre_activity_state, obsVars, pixVars>>

MainCreateVid ==
  /\ main_pc = "create_vid"
  /\ vid_pc' = "init"
  /\ main_pc' = "create_lep"
  /\ UNCHANGED <<sysVars, lepVars, storeVars, notify_image_1, notify_image_2, parmVars,
                 vid_render_torn, vid_notif, ctrlVars, faultVars, obsVars, frameVars>>

\* after vTaskDelay(1000)
MainCreateLep ==
  /\ main_pc = "create_lep"
  /\ lep_pc' = "cci_init"
  /\ main_pc' = "done"
  /\ UNCHANGED <<sysVars, task_state, vid_buf_index, vsync_count, sync_fail_count,
                 reset_fail_count, storeVars, vidVars, vid_notif, ctrlVars,
                 faultVars, obsVars, frameVars>>

app_main ==
  \/ MainCreateCtrl
  \/ MainEspIoInit
  \/ MainPeripheralInit
  \/ MainBufferInit
  \/ MainStartupDone
  \/ MainCreateVid
  \/ MainCreateLep

(***************************************************************************)
(* vid_task: the two image blocks of the loop (video_task.c:168-180).      *)
(* Block K handles "slot K ready" (K = 0: notify_image_1, K = 1:           *)
(* notify_image_2).                                                        *)
(***************************************************************************)
VidAt(name, K) == name \o "_" \o ToString(K)

\* variant: the block displays the slot it is about to render
DisplaySameSlot(K) == K

\* argument of _vid_display_image in block K (video_task.c:171, 178)
DisplayIndex(K) == IF K = 0 THEN 1 ELSE 0

\* argument of _vid_render_image in block K (video_task.c:172, 179)
RenderIndex(K) == IF K = 0 THEN 0 ELSE 1

\* _vid_render_image(k) is reading vid_lep_buffer[k]
VidRendering(k) ==
  \E K \in 0..1 : vid_pc = VidAt("render_end", K) /\ RenderIndex(K) = k

(***************************************************************************)
(* lep_task                                                                *)
(***************************************************************************)
LepIdle == sft["lep"].step = "idle"

\* lep_task.c:89-93
LepCciInit ==
  /\ lep_pc = "cci_init"
  /\ LepIdle
  /\ \E ok \in BOOLEAN :
       IF ok THEN /\ lep_pc' = "vospi_init"
                  /\ NoFaultCall
             ELSE /\ lep_pc' = "deleted_cci"
                  /\ SetFaultCall("lep", CTRL_FAULT_LEP_CCI)
  /\ UNCHANGED <<mainVars, sysVars, task_state, vid_buf_index, vsync_count, sync_fail_count,
                 reset_fail_count, storeVars, vidVars, vid_notif, ctrlVars,
                 ctrl_pre_activity_state, ctrl_notif, obsVars, frameVars>>

\* lep_task.c:96-106
LepVospiInit ==
  /\ lep_pc = "vospi_init"
  /\ LepIdle
  /\ \E ok \in BOOLEAN :
       IF ok THEN /\ lep_pc' = "loop"
                  /\ NoFaultCall
                  /\ lep_emissivity' = ps_get_parm(ps, PS_PARM_EMISSIVITY)
             ELSE /\ lep_pc' = "deleted_vospi"
                  /\ SetFaultCall("lep", CTRL_FAULT_LEP_VOSPI)
                  /\ UNCHANGED lep_emissivity
  /\ UNCHANGED <<mainVars, ps, nvs, task_state, vid_buf_index, vsync_count, sync_fail_count,
                 reset_fail_count, storeVars, vidVars, vid_notif, ctrlVars,
                 ctrl_pre_activity_state, ctrl_notif, obsVars, frameVars>>

\* variant: a failed bring-up is retried after one idle period
BringUpResultShortRetry(ok, in_reinit, rfc) ==
  IF ok THEN [state |-> STATE_RUN, rfc |-> IF in_reinit THEN 1 ELSE rfc]
        ELSE [state |-> STATE_ERROR, rfc |-> 1]

\* variant: a successful bring-up after a reset leaves reset_fail_count alone
BringUpResultUnmarked(ok, in_reinit, rfc) ==
  IF ok THEN [state |-> STATE_RUN, rfc |-> rfc]
        ELSE [state |-> STATE_ERROR, rfc |-> LEP_RESET_FAIL_RETRY_SECS]

\* lepton_init() outcome in STATE_INIT and STATE_RE_INIT: the next state and
\* the value of reset_fail_count (lep_task.c:111-120, 207-219)
BringUpResult(ok, in_reinit, rfc) ==
  IF ok THEN [state |-> STATE_RUN, rfc |-> IF in_reinit THEN 1 ELSE rfc]
        ELSE [state |-> STATE_ERROR, rfc |-> LEP_RESET_FAIL_RETRY_SECS]

\* case STATE_INIT
LepInit ==
  /\ lep_pc = "loop"
  /\ LepIdle
  /\ task_state = STATE_INIT
  /\ \E ok \in BOOLEAN :
       /\ task_state' = BringUpResult(ok, FALSE, reset_fail_count).state
       /\ reset_fail_count' = BringUpResult(ok, FALSE, reset_fail_count).rfc
       /\ IF ok THEN NoFaultCall ELSE SetFaultCall("lep", CTRL_FAULT_LEP_CCI)
       /\ obs_bring_up' = IF ok THEN "ok" ELSE "fail"
  /\ obs_error_idles' = 0
  /\ UNCHANGED <<mainVars, sysVars, lep_pc, vid_buf_index, vsync_count, sync_fail_count,
                 storeVars, vidVars, vid_notif, ctrlVars, ctrl_pre_activity_state,
                 ctrl_notif, obs_cycle, obs_order, obs_miss_run, obs_escalation,
                 obs_reset_since_frame, obs_sync, obs_ready, obs_red_phases, obsUiVars,
                 frameVars>>

\* variant: the miss count is compared before it is incremented
VsyncMissExpiredLate(count) == count = VSYNC_MISS_LIMIT

\* ++vsync_count == 36 (lep_task.c:165)
VsyncMissExpired(count) == count + 1 = VSYNC_MISS_LIMIT

Saturate(n, max) == IF n > max THEN max ELSE n

\* case STATE_RUN, lines 125-134 and 159-166: wait for the vsync edge, try to
\* transfer a segment, count a miss.  LepRunStep is the effect of n failed
\* transfers that do not exhaust the miss count, followed by one transfer
\* with the outcome got_image.
LepRunStep(n, got_image) ==
  /\ vsync_count + n < VSYNC_MISS_LIMIT
  /\ IF got_image
       THEN /\ vsync_count' = 0
            /\ lep_pc' = "take"
            /\ obs_miss_run' = 0
            /\ obs_reset_since_frame' = FALSE
            /\ obs_sync' = [obs_sync EXCEPT !.n = 0, !.reported = FALSE]
       ELSE /\ IF VsyncMissExpired(vsync_count + n)
                 THEN vsync_count' = 0 /\ lep_pc' = "resync_pause"
                 ELSE vsync_count' = vsync_count + n + 1 /\ lep_pc' = "loop"
            /\ obs_miss_run' = Saturate(obs_miss_run + n + 1, VSYNC_MISS_LIMIT + 1)
            /\ UNCHANGED <<obs_reset_since_frame, obs_sync>>
  /\ UNCHANGED <<mainVars, sysVars, task_state, vid_buf_index, sync_fail_count,
                 reset_fail_count, storeVars, vidVars, vid_notif, ctrlVars, faultVars,
                 obs_cycle, obs_order, obs_escalation, obs_error_idles, obs_bring_up, obs_ready,
                 obs_red_phases, obsUiVars, frameVars>>

\* one pass of the loop in STATE_RUN
LepRunSegment ==
  /\ lep_pc = "loop"
  /\ LepIdle
  /\ task_state = STATE_RUN
  /\ \E got_image \in BOOLEAN : LepRunStep(0, got_image)

\* the passes of the loop in STATE_RUN up to the next frame or the next pause,
\* as one step: the failed passes in between touch only vsync_count, and a
\* frame after n failed passes leaves the state of a frame after none
LepRunBurst ==
  /\ lep_pc = "loop"
  /\ LepIdle
  /\ task_state = STATE_RUN
  /\ \E n \in 0..(VSYNC_MISS_LIMIT - 1), got_image \in BOOLEAN :
       /\ IF got_image THEN n = 0 ELSE VsyncMissExpired(vsync_count + n)
       /\ LepRunStep(n, got_image)

\* variant: the failure count is compared after it is incremented
SyncFailLimitReachedEarly(count) == count + 1 = LEP_SYNC_FAIL_FAULT_LIMIT

\* sync_fail_count++ == LEP_SYNC_FAIL_FAULT_LIMIT (lep_task.c:175)
SyncFailLimitReached(count) == count = LEP_SYNC_FAIL_FAULT_LIMIT

\* variant: every synchronisation fault resets the sensor
EscalationAlwaysReInit(rfc) == [state |-> STATE_RE_INIT, rfc |-> rfc]

\* lep_task.c:178-189: reset the first time, otherwise back off
SyncFaultEscalation(rfc) ==
  IF rfc = 0 THEN [state |-> STATE_RE_INIT, rfc |-> rfc]
             ELSE [state |-> STATE_ERROR, rfc |-> LEP_RESET_FAIL_RETRY_SECS]

\* lines 171-190: after the resynchronisation pause
LepResyncPause ==
  /\ lep_pc = "resync_pause"
  /\ LepIdle
  /\ lep_pc' = "loop"
  /\ obs_miss_run' = 0
  /\ obs_error_idles' = 0
  /\ IF SyncFailLimitReached(sync_fail_count)
       THEN /\ sync_fail_count' = 0
            /\ SetFaultCall("lep", CTRL_FAULT_LEP_SYNC)
            /\ task_state' = SyncFaultEscalation(reset_fail_count).state
            /\ reset_fail_count' = SyncFaultEscalation(reset_fail_count).rfc
            /\ obs_escalation' = "hit"
            /\ obs_sync' = SyncPaused(obs_sync, TRUE)
       ELSE /\ sync_fail_count' = sync_fail_count + 1
            /\ NoFaultCall
            /\ obs_sync' = SyncPaused(obs_sync, FALSE)
            /\ UNCHANGED <<task_state, reset_fail_count, obs_escalation>>
  /\ UNCHANGED <<mainVars, sysVars, vid_buf_index, vsync_count, storeVars, vidVars, vid_notif,
                 ctrlVars, ctrl_pre_activity_state, ctrl_notif, obs_cycle, obs_order,
                 obs_reset_since_frame, obs_bring_up, obs_ready, obs_red_phases, obsUiVars,
                 frameVars>>

\* variant: the ready signal is sent before the lock is released
LepFrameNotifyBeforeGive(pc) ==
  CASE pc = "take" -> "get_frame"
    [] pc = "get_frame" -> "get_frame_end"
    [] pc = "get_frame_end" -> "notify"
    [] pc = "notify" -> "give"
    [] pc = "give" -> "fault_clear"
    [] pc = "fault_clear" -> "delay"
    [] pc = "delay" -> "loop"

\* order of the steps after a successful transfer (lep_task.c:136-158)
LepFrameNextPc(pc) ==
  CASE pc = "take" -> "get_frame"
    [] pc = "get_frame" -> "get_frame_end"
    [] pc = "get_frame_end" -> "give"
    [] pc = "give" -> "notify"
    [] pc = "notify" -> "fault_clear"
    [] pc = "fault_clear" -> "delay"
    [] pc = "delay" -> "loop"

\* xSemaphoreTake(vid_lep_buffer[vid_buf_index].lep_mutex, portMAX_DELAY)
LepTake ==
  /\ lep_pc = "take"
  /\ lep_mutex[vid_buf_index] = "free"
  /\ lep_mutex' = [lep_mutex EXCEPT ![vid_buf_index] = "lep"]
  /\ lep_pc' = LepFrameNextPc(lep_pc)
  /\ UNCHANGED <<mainVars, sysVars, task_state, vid_buf_index, vsync_count, sync_fail_count,
                 reset_fail_count, lep_buf, rend_fb, drv_fb, vidVars, vid_notif,
                 ctrlVars, faultVars, obsVars, frameVars>>

\* vospi_get_frame(&vid_lep_buffer[vid_buf_index]): the copy starts ...
LepGetFrameBegin ==
  /\ lep_pc = "get_frame"
  /\ lep_buf' = [lep_buf EXCEPT ![vid_buf_index] = "writing"]
  /\ vid_render_torn' = (vid_render_torn \/ VidRendering(vid_buf_index))
  /\ lep_pc' = LepFrameNextPc(lep_pc)
  /\ obs_ready' = [obs_ready EXCEPT !.written = <<vid_buf_index>>]
  /\ obs_order' = OrderAcquired(obs_order, vid_buf_index)
  /\ UNCHANGED <<mainVars, sysVars, task_state, vid_buf_index, vsync_count, sync_fail_count,
                 reset_fail_count, lep_mutex, rend_fb, drv_fb, vid_pc, notify_image_1,
                 notify_image_2, parmVars, vid_notif, ctrlVars, faultVars, obs_cycle,
                 obsAcqVars, obs_red_phases, obsUiVars, frameVars>>

\* ... and ends
LepGetFrameEnd ==
  /\ lep_pc = "get_frame_end"
  /\ lep_buf' = [lep_buf EXCEPT ![vid_buf_index] = "frame"]
  /\ lep_pc' = LepFrameNextPc(lep_pc)
  /\ UNCHANGED <<mainVars, sysVars, task_state, vid_buf_index, vsync_count, sync_fail_count,
                 reset_fail_count, lep_mutex, rend_fb, drv_fb, vidVars, vid_notif,
                 ctrlVars, faultVars, obsVars, frameVars>>

\* xSemaphoreGive
LepGive ==
  /\ lep_pc = "give"
  /\ lep_mutex' = [lep_mutex EXCEPT ![vid_buf_index] = "free"]
  /\ lep_pc' = LepFrameNextPc(lep_pc)
  /\ UNCHANGED <<mainVars, sysVars, task_state, vid_buf_index, vsync_count, sync_fail_count,
                 reset_fail_count, lep_buf, rend_fb, drv_fb, vidVars, vid_notif,
                 ctrlVars, faultVars, obsVars, frameVars>>

\* variant: the signal names the slot the next frame goes to
FrameMaskNextSlot(index) ==
  IF index = 0 THEN VID_NOTIFY_LEP_FRAME_MASK_2 ELSE VID_NOTIFY_LEP_FRAME_MASK_1

\* lep_task.c:142-148
FrameMask(index) ==
  IF index = 0 THEN VID_NOTIFY_LEP_FRAME_MASK_1 ELSE VID_NOTIFY_LEP_FRAME_MASK_2

\* the slot vid_task renders on a ready signal (video_task.c:168-179, 196-201)
MaskSlot(mask) == IF mask = VID_NOTIFY_LEP_FRAME_MASK_1 THEN 0 ELSE 1

LepNotify ==
  /\ lep_pc = "notify"
  /\ vid_notif' = vid_notif \cup {FrameMask(vid_buf_index)}
  /\ vid_buf_index' = IF vid_buf_index = 0 THEN 1 ELSE 0
  /\ lep_pc' = LepFrameNextPc(lep_pc)
  /\ obs_notif' = NotifSent(obs_notif, {FrameMask(vid_buf_index)})
  /\ obs_ready' = [obs_ready EXCEPT !.signalled = <<MaskSlot(FrameMask(vid_buf_index))>>]
  /\ UNCHANGED <<mainVars, sysVars, task_state, vsync_count, sync_fail_count,
                 reset_fail_count, storeVars, vidVars, ctrlVars, faultVars, obs_cycle, obs_order,
                 obsAcqVars, obs_red_phases, obsUiVars, pixVars>>

\* lep_task.c:151-156
LepFaultClear ==
  /\ lep_pc = "fault_clear"
  /\ IF sync_fail_count >= LEP_SYNC_FAIL_FAULT_LIMIT
       THEN SetFaultCall("lep", CTRL_FAULT_NONE)
       ELSE NoFaultCall
  /\ sync_fail_count' = 0
  /\ reset_fail_count' = 0
  /\ lep_pc' = LepFrameNextPc(lep_pc)
  /\ obs_sync' = [obs_sync EXCEPT !.faulted = FALSE]
  /\ UNCHANGED <<mainVars, sysVars, task_state, vid_buf_index, vsync_count, storeVars,
                 vidVars, vid_notif, ctrlVars, ctrl_pre_activity_state, ctrl_notif,
                 obs_cycle, obs_order, obs_miss_run, obs_escalation, obs_reset_since_frame,
                 obs_error_idles, obs_bring_up, obs_ready, obs_red_phases, obsUiVars,
                 frameVars>>

\* vTaskDelay(pdMS_TO_TICKS(30))
LepDelay ==
  /\ lep_pc = "delay"
  /\ LepIdle
  /\ lep_pc' = LepFrameNextPc(lep_pc)
  /\ UNCHANGED <<mainVars, sysVars, task_state, vid_buf_index, vsync_count, sync_fail_count,
                 reset_fail_count, storeVars, vidVars, vid_notif, ctrlVars, faultVars,
                 obsVars, frameVars>>

\* case STATE_RE_INIT
LepReInit ==
  /\ lep_pc = "loop"
  /\ LepIdle
  /\ task_state = STATE_RE_INIT
  /\ \E ok \in BOOLEAN :
       /\ task_state' = BringUpResult(ok, TRUE, reset_fail_count).state
       /\ reset_fail_count' = BringUpResult(ok, TRUE, reset_fail_count).rfc
       /\ IF ok THEN NoFaultCall ELSE SetFaultCall("lep", CTRL_FAULT_LEP_CCI)
       /\ obs_escalation' = IF ok /\ obs_escalation = "hit" THEN "reinit_ok"
                                                            ELSE obs_escalation
       /\ obs_bring_up' = IF ok THEN "ok" ELSE "fail"
  /\ obs_reset_since_frame' = TRUE
  /\ obs_error_idles' = 0
  /\ UNCHANGED <<mainVars, sysVars, lep_pc, vid_buf_index, vsync_count, sync_fail_count,
                 storeVars, vidVars, vid_notif, ctrlVars, ctrl_pre_activity_state,
                 ctrl_notif, obs_cycle, obs_order, obs_miss_run, obs_sync, obs_ready, obs_red_phases,
                 obsUiVars, frameVars>>

\* variant: the countdown is compared before it is decremented
ErrorCountdownPostDecrement(rfc) ==
  [state |-> IF rfc = 0 THEN STATE_RE_INIT ELSE STATE_ERROR, rfc |-> rfc - 1]

\* if (--reset_fail_count == 0) task_state = STATE_RE_INIT (lep_task.c:225-227)
ErrorCountdown(rfc) ==
  [state |-> IF rfc - 1 = 0 THEN STATE_RE_INIT ELSE STATE_ERROR, rfc |-> rfc - 1]

\* case STATE_ERROR
LepError ==
  /\ lep_pc = "loop"
  /\ LepIdle
  /\ task_state = STATE_ERROR
  /\ reset_fail_count' = ErrorCountdown(reset_fail_count).rfc
  /\ task_state' = ErrorCountdown(reset_fail_count).state
  /\ obs_error_idles' = Saturate(obs_error_idles + 1, LEP_RESET_FAIL_RETRY_SECS + 1)
  /\ UNCHANGED <<mainVars, sysVars, lep_pc, vid_buf_index, vsync_count, sync_fail_count,
                 storeVars, vidVars, vid_notif, ctrlVars, faultVars, obs_cycle, obs_order,
                 obs_miss_run, obs_escalation, obs_reset_since_frame, obs_bring_up,
                 obs_sync, obs_ready, obs_red_phases, obsUiVars, frameVars>>

\* The steps of lep_task.c:136-156 after a successful transfer, taken in one
\* step: the frame is copied under the lock, the ready signal is sent, the
\* slot index alternates, the fault is cleared if necessary and the counters
\* are reset.
LepFrameRun ==
  /\ lep_pc = "take"
  /\ lep_mutex[vid_buf_index] = "free"
  /\ lep_buf' = [lep_buf EXCEPT ![vid_buf_index] = "frame"]
  /\ vid_render_torn' = (vid_render_torn \/ VidRendering(vid_buf_index))
  /\ vid_notif' = vid_notif \cup {FrameMask(vid_buf_index)}
  /\ vid_buf_index' = IF vid_buf_index = 0 THEN 1 ELSE 0
  /\ obs_notif' = NotifSent(obs_notif, {FrameMask(vid_buf_index)})
  /\ IF sync_fail_count >= LEP_SYNC_FAIL_FAULT_LIMIT
       THEN SetFaultCall("lep", CTRL_FAULT_NONE)
       ELSE NoFaultCall
  /\ sync_fail_count' = 0
  /\ reset_fail_count' = 0
  /\ lep_pc' = "delay"
  /\ obs_sync' = [obs_sync EXCEPT !.faulted = FALSE]
  /\ obs_ready' = [written |-> <<vid_buf_index>>,
                   signalled |-> <<MaskSlot(FrameMask(vid_buf_index))>>]
  /\ UNCHANGED <<mainVars, sysVars, task_state, vsync_count, lep_mutex, rend_fb, drv_fb,
                 vid_pc, notify_image_1, notify_image_2, parmVars, ctrlVars,
                 ctrl_pre_activity_state, ctrl_notif, obs_cycle, obs_order, obs_miss_run,
                 obs_escalation, obs_reset_since_frame, obs_error_idles, obs_bring_up,
                 obs_red_phases, obsUiVars, pixVars>>

\* the steps of lep_task but the passes of the loop in STATE_RUN
LepOther ==
  \/ LepCciInit
  \/ LepVospiInit
  \/ LepInit
  \/ LepResyncPause
  \/ LepTake
  \/ LepGetFrameBegin
  \/ LepGetFrameEnd
  \/ LepGive
  \/ LepNotify
  \/ LepFaultClear
  \/ LepDelay
  \/ LepReInit
  \/ LepError

lep_task == LepOther \/ LepRunSegment

\* lep_task with the failed passes between two events taken in one step
lep_task_burst == LepOther \/ LepRunBurst

\* lep_task with the failed passes and the steps of a frame taken in one step
lep_task_frames ==
  \/ LepCciInit
  \/ LepVospiInit
  \/ LepInit
  \/ LepRunBurst
  \/ LepFrameRun
  \/ LepDelay
  \/ LepResyncPause
  \/ LepReInit
  \/ LepError

(***************************************************************************)
(* vid_task                                                                *)
(***************************************************************************)
\* (v & mask) == mask for a one-bit mask, on a two's complement int
BitSet(v, mask) == (v \div mask) % 2 = 1

\* the palette and marker flags of a palette/marker value
MarkerGui(g, v) ==
  [g EXCEPT !.black_hot_palette = BitSet(v, M_PARM_PALETTE_MASK),
            !.min_max_enable = BitSet(v, M_PARM_MARKER_MASK),
            !.spotmeter_enable = BitSet(v, M_PARM_MARKER_MASK)]

\* _vid_get_emissivity_index: the scan from index i on
RECURSIVE EmissivityScan(_, _)
EmissivityScan(cur_e, i) ==
  IF i < NUM_E_PARM_VALS
    THEN IF parm_e_value[i + 1] = cur_e THEN i ELSE EmissivityScan(cur_e, i + 1)
    ELSE NUM_E_PARM_VALS - 1

\* a lookup that gives the first index for a value not in the list
EmissivityIndexUnknownFirst(cur_e) ==
  IF \E i \in 1..NUM_E_PARM_VALS : parm_e_value[i] = cur_e
    THEN EmissivityScan(cur_e, 0) ELSE 0

vid_get_emissivity_index(cur_e) == EmissivityScan(cur_e, 0)

\* The parameter session of _vid_eval_parm_update as one record: the statics
\* of video_task.c, the emissivity handed to the sensor driver, and the
\* persistent parameters.
ParmState ==
  [cur_parm_index |-> cur_parm_index, cur_parm_max_index |-> cur_parm_max_index,
   cur_parm_value |-> cur_parm_value, prev_parm_value |-> prev_parm_value,
   parm_entry_timeout |-> parm_entry_timeout, gui_state |-> gui_state,
   lep_emissivity |-> lep_emissivity, ps |-> ps, nvs |-> nvs]

\* variant: the value stops at the last one
ParmNextValueNoWrap(s) ==
  IF s.cur_parm_value + 1 > s.cur_parm_max_index THEN s.cur_parm_max_index
                                                  ELSE s.cur_parm_value + 1

\* if (++cur_parm_value > cur_parm_max_index) cur_parm_value = 0;
ParmNextValue(s) ==
  IF s.cur_parm_value + 1 > s.cur_parm_max_index THEN 0 ELSE s.cur_parm_value + 1

\* a short-press that also stores the new value
ParmValChangeStored(s) ==
  LET v == ParmNextValue(s)
  IN  [s EXCEPT !.cur_parm_value = v,
                !.ps = ps_set_parm(@, s.cur_parm_index, v),
                !.parm_entry_timeout = PARM_ENTRY_TIMEOUT_MSEC]

\* branch notify_parm_val_change
ParmValChange(s) ==
  LET v == ParmNextValue(s)
  IN  [s EXCEPT !.cur_parm_value = v,
                !.lep_emissivity = IF s.cur_parm_index = PARM_INDEX_EMISSIVITY
                                     THEN parm_e_value[v + 1] ELSE @,
                !.gui_state = CASE s.cur_parm_index = PARM_INDEX_EMISSIVITY -> @
                                [] s.cur_parm_index = PARM_INDEX_UNITS ->
                                     [@ EXCEPT !.temp_unit_C = (v # 0)]
                                [] OTHER -> MarkerGui(@, v),
                !.parm_entry_timeout = PARM_ENTRY_TIMEOUT_MSEC]

\* the storage key of a group
ParmKey(index) ==
  CASE index = PARM_INDEX_EMISSIVITY -> PS_PARM_EMISSIVITY
    [] index = PARM_INDEX_UNITS      -> PS_PARM_UNITS
    [] OTHER                         -> PS_PARM_PALETTE_MARKER

\* the value a group stores for the current entry value
ParmStoredValue(s) ==
  IF s.cur_parm_index = PARM_INDEX_EMISSIVITY
    THEN parm_e_value[s.cur_parm_value + 1] ELSE s.cur_parm_value

\* a commit that does not compare with the value at entry
ParmCommitAlways(s) ==
  [s EXCEPT !.ps = ps_set_parm(@, ParmKey(s.cur_parm_index), ParmStoredValue(s)),
            !.nvs = nvs_set_i32(@, ParmKey(s.cur_parm_index), ParmStoredValue(s))]

\* a commit that stores nothing
ParmCommitNever(s) == s

\* if (cur_parm_value != prev_parm_value) ps_set_parm(...)
ParmCommit(s) ==
  IF s.cur_parm_value # s.prev_parm_value
    THEN [s EXCEPT !.ps = ps_set_parm(@, ParmKey(s.cur_parm_index), ParmStoredValue(s)),
                   !.nvs = nvs_set_i32(@, ParmKey(s.cur_parm_index), ParmStoredValue(s))]
    ELSE s

\* a cycle of two groups
ParmNextIndexTwoGroups(index) == IF index + 1 = NUM_PARMS - 1 THEN 0 ELSE index + 1

\* if (++cur_parm_index == NUM_PARMS) cur_parm_index = 0;
ParmNextIndex(index) == IF index + 1 = NUM_PARMS THEN 0 ELSE index + 1

\* the starting value of a group
ParmLoadValue(p, index) ==
  CASE index = PARM_INDEX_EMISSIVITY ->
         vid_get_emissivity_index(ps_get_parm(p, PS_PARM_EMISSIVITY))
    [] index = PARM_INDEX_UNITS -> ps_get_parm(p, PS_PARM_UNITS)
    [] OTHER -> ps_get_parm(p, PS_PARM_PALETTE_MARKER)

\* variant: the number of values instead of the last index
ParmMaxIndexCount(index) ==
  CASE index = PARM_INDEX_EMISSIVITY -> NUM_E_PARM_VALS
    [] index = PARM_INDEX_UNITS      -> NUM_U_PARM_VALS
    [] OTHER                         -> NUM_M_PARM_VALS

ParmMaxIndex(index) ==
  CASE index = PARM_INDEX_EMISSIVITY -> NUM_E_PARM_VALS - 1
    [] index = PARM_INDEX_UNITS      -> NUM_U_PARM_VALS - 1
    [] OTHER                         -> NUM_M_PARM_VALS - 1

\* no deadline armed by a group change
ParmSelTimeoutNever(index) == 0

\* a deadline armed after every group change
ParmSelTimeoutAlways(index) == PARM_ENTRY_TIMEOUT_MSEC

\* the deadline after a group change: none for the default group
ParmSelTimeout(index) ==
  IF index + 1 = NUM_PARMS THEN 0 ELSE PARM_ENTRY_TIMEOUT_MSEC

\* branch notify_parm_sel_change
ParmSelChange(s) ==
  LET c == ParmCommit(s)
      i == ParmNextIndex(s.cur_parm_index)
      v == ParmLoadValue(c.ps, i)
  IN  [c EXCEPT !.cur_parm_index = i,
                !.parm_entry_timeout = ParmSelTimeout(s.cur_parm_index),
                !.cur_parm_value = v,
                !.cur_parm_max_index = ParmMaxIndex(i),
                !.prev_parm_value = v]

\* a timeout that drops the pending change
ParmTimeoutNoCommit(s) ==
  LET v == ps_get_parm(s.ps, PS_PARM_PALETTE_MARKER)
  IN  [s EXCEPT !.cur_parm_index = 0,
                !.cur_parm_max_index = NUM_M_PARM_VALS - 1,
                !.cur_parm_value = v,
                !.prev_parm_value = v,
                !.parm_entry_timeout = 0]

\* branch parm_entry_timeout != 0, the deadline has passed
ParmTimeout(s) ==
  LET c == ParmCommit(s)
      v == ps_get_parm(c.ps, PS_PARM_PALETTE_MARKER)
  IN  [c EXCEPT !.cur_parm_index = 0,
                !.cur_parm_max_index = NUM_M_PARM_VALS - 1,
                !.cur_parm_value = v,
                !.prev_parm_value = v,
                !.parm_entry_timeout = 0]

\* the long-press tested before the short-press
ParmBranchSelectFirst(expired) ==
  IF notify_parm_sel_change THEN "long"
  ELSE IF notify_parm_val_change THEN "short"
  ELSE IF parm_entry_timeout # 0 /\ expired THEN "timeout"
  ELSE "none"

\* the branch _vid_eval_parm_update takes; expired is the outcome of
\* (cur_time - prev_time) >= parm_entry_timeout
ParmBranch(expired) ==
  IF notify_parm_val_change THEN "short"
  ELSE IF notify_parm_sel_change THEN "long"
  ELSE IF parm_entry_timeout # 0 /\ expired THEN "timeout"
  ELSE "none"

ParmStep(s, branch) ==
  CASE branch = "short"   -> ParmValChange(s)
    [] branch = "long"    -> ParmSelChange(s)
    [] branch = "timeout" -> ParmTimeout(s)
    [] OTHER              -> s

\* the session's history: long-presses handled since the default group was
\* last entered from outside the cycle, the last event handled, the value
\* the active group had when it was entered, and whether a short-press was
\* handled since then
ObsParmStep(o, branch, entry) ==
  CASE branch = "short"   -> [o EXCEPT !.last = "short", !.touched = TRUE]
    [] branch = "long"    -> [longs |-> IF o.longs = 3 THEN 1 ELSE o.longs + 1,
                              last |-> "long", entry |-> entry, touched |-> FALSE]
    [] branch = "timeout" -> [longs |-> 0, last |-> "timeout", entry |-> entry,
                              touched |-> FALSE]
    [] OTHER              -> o

\* video_task.c:135-159: default GUI state, video_init, the test image is
\* rendered into the driver's frame buffer
VidInit ==
  /\ vid_pc = "init"
  /\ cur_parm_index' = 0
  /\ cur_parm_max_index' = NUM_M_PARM_VALS - 1
  /\ cur_parm_value' = ps_get_parm(ps, PS_PARM_PALETTE_MARKER)
  /\ prev_parm_value' = cur_parm_value'
  /\ parm_entry_timeout' = 0
  /\ gui_state' = [MarkerGui(gui_state, cur_parm_value') EXCEPT
                     !.display_interp_enable = TRUE,
                     !.temp_unit_C = (ps_get_parm(ps, PS_PARM_UNITS) # 0)]
  /\ obs_parm' = [longs |-> 0, last |-> "init", entry |-> cur_parm_value',
                  touched |-> FALSE]
  /\ drv_fb' = "test_image"
  /\ vid_pc' = "notif"
  /\ UNCHANGED <<mainVars, sysVars, lepVars, lep_mutex, lep_buf, rend_fb, notify_image_1,
                 notify_image_2, notify_parm_val_change, notify_parm_sel_change,
                 vid_render_torn, vid_notif, ctrlVars, faultVars,
                 obs_cycle, obs_order, obsLepVars, obs_red_phases, obs_press, obs_ps, obs_render, frameVars>>

\* _vid_handle_notifications: read and clear the whole word
VidHandleNotifications ==
  /\ vid_pc = "notif"
  /\ notify_image_1' = (notify_image_1 \/ VID_NOTIFY_LEP_FRAME_MASK_1 \in vid_notif)
  /\ notify_image_2' = (notify_image_2 \/ VID_NOTIFY_LEP_FRAME_MASK_2 \in vid_notif)
  /\ vid_notif' = {}
  /\ notify_parm_val_change' =
       (notify_parm_val_change \/ VID_NOTIFY_PARM_CHANGE_MASK \in vid_notif)
  /\ notify_parm_sel_change' =
       (notify_parm_sel_change \/ VID_NOTIFY_PARM_SELECT_MASK \in vid_notif)
  /\ vid_pc' = "parm"
  /\ obs_notif' = NotifPolled(obs_notif, VidTypes)
  /\ UNCHANGED <<mainVars, sysVars, lepVars, storeVars, vid_render_torn, cur_parm_index,
                 cur_parm_max_index, cur_parm_value, prev_parm_value,
                 parm_entry_timeout, gui_state, ctrlVars, faultVars, obsVars, pixVars>>

\* _vid_eval_parm_update: one of the three branches, or none
VidEvalParmUpdate ==
  /\ vid_pc = "parm"
  /\ vid_pc' = VidAt("image", 0)
  /\ \E expired \in BOOLEAN :
       LET branch == ParmBranch(expired)
           n == ParmStep(ParmState, branch)
       IN  /\ cur_parm_index' = n.cur_parm_index
           /\ cur_parm_max_index' = n.cur_parm_max_index
           /\ cur_parm_value' = n.cur_parm_value
           /\ prev_parm_value' = n.prev_parm_value
           /\ parm_entry_timeout' = n.parm_entry_timeout
           /\ gui_state' = n.gui_state
           /\ lep_emissivity' = n.lep_emissivity
           /\ ps' = n.ps
           /\ nvs' = n.nvs
           /\ notify_parm_val_change' = FALSE
           /\ notify_parm_sel_change' = (notify_parm_val_change /\ notify_parm_sel_change)
           /\ obs_parm' = ObsParmStep(obs_parm, branch, n.cur_parm_value)
  /\ obs_notif' = NotifHandled(obs_notif,
        IF notify_parm_val_change THEN {VID_NOTIFY_PARM_CHANGE_MASK}
        ELSE IF notify_parm_sel_change THEN {VID_NOTIFY_PARM_SELECT_MASK}
        ELSE {})
  /\ UNCHANGED <<mainVars, lepVars, storeVars, notify_image_1, notify_image_2,
                 vid_render_torn, vid_notif, ctrlVars, faultVars,
                 obs_cycle, obs_order, obsLepVars, obs_red_phases, obs_press, obs_ps, obs_render, pixVars>>

NotifyImage(K) == IF K = 0 THEN notify_image_1 ELSE notify_image_2

\* if (notify_image_N) { notify_image_N = false; video_wait_frame(); ...
VidImageCheck(K) ==
  /\ vid_pc = VidAt("image", K)
  /\ IF NotifyImage(K)
       THEN /\ vid_pc' = VidAt("display", K)
            /\ obs_cycle' = [k |-> K, ops |-> <<>>]
       ELSE /\ vid_pc' = IF K = 0 THEN VidAt("image", 1) ELSE "delay"
            /\ UNCHANGED obs_cycle
  /\ notify_image_1' = IF K = 0 THEN FALSE ELSE notify_image_1
  /\ notify_image_2' = IF K = 1 THEN FALSE ELSE notify_image_2
  /\ obs_notif' = NotifHandled(obs_notif, IF NotifyImage(K) THEN {FrameMask(K)} ELSE {})
  /\ UNCHANGED obs_order
  /\ UNCHANGED <<mainVars, sysVars, lepVars, storeVars, vid_render_torn, parmVars,
                 vid_notif, ctrlVars, faultVars, obsLepVars, obs_red_phases, obsUiVars, pixVars>>

\* order of the two buffer operations of a block (video_task.c:171-172)
VidBlockNextPc(pc, K) ==
  CASE pc = VidAt("display", K) -> VidAt("render", K)
    [] pc = VidAt("render", K) -> VidAt("render_end", K)
    [] pc = VidAt("render_end", K) -> IF K = 0 THEN VidAt("image", 1) ELSE "delay"

\* _vid_display_image: copy rend_fbP[index] to the driver's frame buffer
VidDisplay(K) ==
  /\ vid_pc = VidAt("display", K)
  /\ drv_fb' = rend_fb[DisplayIndex(K)]
  /\ obs_cycle' = [obs_cycle EXCEPT !.ops = Append(@, <<"display", DisplayIndex(K)>>)]
  /\ obs_order' = OrderDisplayed(obs_order, DisplayIndex(K))
  /\ vid_pc' = VidBlockNextPc(vid_pc, K)
  /\ UNCHANGED <<mainVars, sysVars, lepVars, lep_mutex, lep_buf, rend_fb, notify_image_1,
                 notify_image_2, parmVars, vid_render_torn, vid_notif, ctrlVars, faultVars,
                 obsLepVars, obs_red_phases, obsUiVars, frameVars>>

\* _vid_render_image: reads vid_lep_buffer[index] without taking lep_mutex,
\* writes rend_fbP[index]
VidRenderBegin(K) ==
  /\ vid_pc = VidAt("render", K)
  /\ rend_fb' = [rend_fb EXCEPT ![RenderIndex(K)] = "rendering"]
  /\ vid_render_torn' = (lep_buf[RenderIndex(K)] = "writing")
  /\ vid_pc' = VidBlockNextPc(vid_pc, K)
  /\ UNCHANGED <<mainVars, sysVars, lepVars, lep_mutex, lep_buf, drv_fb, notify_image_1,
                 notify_image_2, parmVars, vid_notif, ctrlVars, faultVars, obsVars, frameVars>>

VidRenderEnd(K) ==
  /\ vid_pc = VidAt("render_end", K)
  /\ rend_fb' = [rend_fb EXCEPT ![RenderIndex(K)] =
                    IF vid_render_torn \/ lep_buf[RenderIndex(K)] = "writing"
                      THEN "torn" ELSE "complete"]
  /\ vid_render_torn' = FALSE
  /\ obs_cycle' = [obs_cycle EXCEPT !.ops = Append(@, <<"render", RenderIndex(K)>>)]
  /\ obs_order' = OrderRendered(obs_order, RenderIndex(K))
  /\ vid_pc' = VidBlockNextPc(vid_pc, K)
  /\ UNCHANGED <<mainVars, sysVars, lepVars, lep_mutex, lep_buf, drv_fb, notify_image_1,
                 notify_image_2, parmVars, vid_notif, ctrlVars, faultVars, obsLepVars,
                 obs_red_phases, obsUiVars, frameVars>>

\* vTaskDelay(pdMS_TO_TICKS(VID_EVAL_MSEC))
VidDelay ==
  /\ vid_pc = "delay"
  /\ vid_pc' = "notif"
  /\ obs_notif' = NotifLoopEnd(obs_notif, VidTypes)
  /\ UNCHANGED <<mainVars, sysVars, lepVars, storeVars, notify_image_1, notify_image_2, parmVars,
                 vid_render_torn, vid_notif, ctrlVars, faultVars, obsVars, pixVars>>

vid_task ==
  \/ VidInit
  \/ VidHandleNotifications
  \/ VidEvalParmUpdate
  \/ \E K \in 0..1 : VidImageCheck(K)
  \/ \E K \in 0..1 : VidDisplay(K)
  \/ \E K \in 0..1 : VidRenderBegin(K)
  \/ \E K \in 0..1 : VidRenderEnd(K)
  \/ VidDelay

(***************************************************************************)
(* ctrl_task                                                               *)
(* The control and LED state is passed through the helper functions as a   *)
(* record c = [state, led_state, led_timer, led_count, led].               *)
(***************************************************************************)
CtrlRec == [state |-> ctrl_state, led_state |-> ctrl_led_state,
            led_timer |-> ctrl_led_timer, led_count |-> ctrl_fault_led_count,
            led |-> led]

CtrlAssign(c) ==
  /\ ctrl_state' = c.state
  /\ ctrl_led_state' = c.led_state
  /\ ctrl_led_timer' = c.led_timer
  /\ ctrl_fault_led_count' = c.led_count
  /\ led' = c.led

\* ctrl_task.c:339-363
ctrl_set_led_state(c, new_st) ==
  CASE new_st = CTRL_LED_ST_FLT_ON ->
         [c EXCEPT !.led_state = new_st,
                   !.led_timer = CTRL_FAULT_BLINK_ON_MSEC \div CTRL_EVAL_MSEC,
                   !.led = CTRL_LED_RED]
    [] new_st = CTRL_LED_ST_FLT_OFF ->
         [c EXCEPT !.led_state = new_st,
                   !.led_timer = CTRL_FAULT_BLINK_OFF_MSEC \div CTRL_EVAL_MSEC,
                   !.led = CTRL_LED_OFF]
    [] new_st = CTRL_LED_ST_FLT_IDLE ->
         [c EXCEPT !.led_state = new_st,
                   !.led_timer = CTRL_FAULT_IDLE_MSEC \div CTRL_EVAL_MSEC,
                   !.led = CTRL_LED_OFF]
    [] OTHER -> [c EXCEPT !.led_state = new_st]

\* ctrl_task.c:313-336; fault_type is ctrl_fault_type as read by the call
ctrl_set_state(c, new_st, fault_type) ==
  CASE new_st = CTRL_ST_STARTUP ->
         ctrl_set_led_state([c EXCEPT !.state = new_st, !.led = CTRL_LED_YEL],
                            CTRL_LED_ST_SOLID)
    [] new_st = CTRL_ST_RUN ->
         ctrl_set_led_state([c EXCEPT !.state = new_st, !.led = CTRL_LED_GRN],
                            CTRL_LED_ST_SOLID)
    [] new_st = CTRL_ST_FAULT ->
         IF fault_type # CTRL_FAULT_NONE
           THEN ctrl_set_led_state([c EXCEPT !.state = new_st, !.led_count = fault_type],
                                   CTRL_LED_ST_FLT_ON)
           ELSE [c EXCEPT !.state = new_st]
    [] OTHER -> [c EXCEPT !.state = new_st]

\* ctrl_task_init (ctrl_task.c:144-171)
CtrlTaskInit ==
  /\ ctrl_pc = "init"
  /\ CtrlAssign(ctrl_set_state(CtrlRec, CTRL_ST_STARTUP, ctrl_fault_type))
  /\ ctrl_pc' = "notif"
  /\ UNCHANGED <<mainVars, sysVars, lepVars, storeVars, vidVars, vid_notif, btnVars,
                 faultVars, obsVars, frameVars>>

\* the three handlers of ctrl_handle_notifications, in program order
\* (ctrl_task.c:372-385)
HandleStartupDone(c, bits, fault_type) ==
  IF CTRL_NOTIFY_STARTUP_DONE \in bits /\ c.state # CTRL_ST_FAULT
    THEN ctrl_set_state(c, CTRL_ST_RUN, fault_type) ELSE c

\* variant: a fault report is honoured in Run only
HandleFaultInRunOnly(c, bits, fault_type) ==
  IF CTRL_NOTIFY_FAULT \in bits /\ c.state = CTRL_ST_RUN
    THEN ctrl_set_state(c, CTRL_ST_FAULT, fault_type) ELSE c

HandleFault(c, bits, fault_type) ==
  IF CTRL_NOTIFY_FAULT \in bits
    THEN ctrl_set_state(c, CTRL_ST_FAULT, fault_type) ELSE c

HandleFaultClear(c, bits, fault_type, pre_state) ==
  IF CTRL_NOTIFY_FAULT_CLEAR \in bits
    THEN ctrl_set_state(c, pre_state, fault_type) ELSE c

\* variant: the three tests form an else-if chain, one bit handled per poll
HandleFirstNotification(c, bits, fault_type, pre_state) ==
  IF CTRL_NOTIFY_STARTUP_DONE \in bits
    THEN HandleStartupDone(c, bits, fault_type)
    ELSE IF CTRL_NOTIFY_FAULT \in bits
      THEN HandleFault(c, bits, fault_type)
      ELSE HandleFaultClear(c, bits, fault_type, pre_state)

HandleNotifications(c, bits, fault_type, pre_state) ==
  HandleFaultClear(HandleFault(HandleStartupDone(c, bits, fault_type), bits, fault_type),
                   bits, fault_type, pre_state)

\* this poll ends with the blink set up by ctrl_set_state(CTRL_ST_FAULT)
BurstSetUp(bits, fault_type, pre_state) ==
  /\ fault_type # CTRL_FAULT_NONE
  /\ \/ CTRL_NOTIFY_FAULT_CLEAR \in bits /\ pre_state = CTRL_ST_FAULT
     \/ CTRL_NOTIFY_FAULT_CLEAR \notin bits /\ CTRL_NOTIFY_FAULT \in bits

\* vTaskDelay(CTRL_EVAL_MSEC); ctrl_handle_notifications(): xTaskNotifyWait
\* reads and clears the whole word
CtrlHandleNotifications ==
  /\ ctrl_pc = "notif"
  /\ CtrlAssign(HandleNotifications(CtrlRec, ctrl_notif, ctrl_fault_type,
                                    ctrl_pre_activity_state))
  /\ ctrl_notif' = {}
  /\ obs_red_phases' = IF BurstSetUp(ctrl_notif, ctrl_fault_type, ctrl_pre_activity_state)
                         THEN 1 ELSE obs_red_phases
  /\ ctrl_pc' = "eval"
  /\ obs_notif' = NotifHandled(NotifPolled(obs_notif, CtrlTypes), ctrl_notif)
  /\ UNCHANGED <<mainVars, sysVars, lepVars, storeVars, vidVars, vid_notif, btnVars, sft,
                 ctrl_fault_type, ctrl_pre_activity_state, obs_cycle, obs_order, obsLepVars,
                 obsUiVars, pixVars>>

\* --ctrl_fault_led_count; a value below zero is 2^32 decrements away from
\* zero, and is kept at -MaxLedUnderflow
DecLedCount(n) == IF n - 1 < -MaxLedUnderflow THEN -MaxLedUnderflow ELSE n - 1

\* ctrl_eval_led_sm (ctrl_task.c:280-310)
EvalLedSm(c, fault_type) ==
  CASE c.led_state = CTRL_LED_ST_FLT_ON ->
         IF c.led_timer - 1 = 0
           THEN ctrl_set_led_state([c EXCEPT !.led_timer = @ - 1], CTRL_LED_ST_FLT_OFF)
           ELSE [c EXCEPT !.led_timer = @ - 1]
    [] c.led_state = CTRL_LED_ST_FLT_OFF ->
         IF c.led_timer - 1 = 0
           THEN IF DecLedCount(c.led_count) = 0
                  THEN ctrl_set_led_state([c EXCEPT !.led_timer = @ - 1,
                                                    !.led_count = DecLedCount(@)],
                                          CTRL_LED_ST_FLT_IDLE)
                  ELSE ctrl_set_led_state([c EXCEPT !.led_timer = @ - 1,
                                                    !.led_count = DecLedCount(@)],
                                          CTRL_LED_ST_FLT_ON)
           ELSE [c EXCEPT !.led_timer = @ - 1]
    [] c.led_state = CTRL_LED_ST_FLT_IDLE ->
         IF c.led_timer - 1 = 0
           THEN ctrl_set_led_state([c EXCEPT !.led_timer = @ - 1,
                                             !.led_count = fault_type],
                                   CTRL_LED_ST_FLT_ON)
           ELSE [c EXCEPT !.led_timer = @ - 1]
    [] OTHER -> c

\* the statics of ctrl_debounce_button
BtnRec == [prev_btn |-> prev_btn, btn_down |-> btn_down, btn_timer |-> btn_timer]

\* ticks of the long-press countdown
LongPressTicks == CTRL_BTN_LONG_PRESS_MSEC \div CTRL_EVAL_MSEC

\* a debounce whose release reports a short press whatever the countdown
DebounceShortOnAnyRelease(b, cur_btn) ==
  LET pressed  == cur_btn /\ b.prev_btn /\ ~b.btn_down
      down1    == IF pressed THEN TRUE ELSE b.btn_down
      timer1   == IF pressed THEN LongPressTicks ELSE b.btn_timer
      released == ~cur_btn /\ ~b.prev_btn /\ down1
      down2    == IF released THEN FALSE ELSE down1
      counting == down2 /\ timer1 # 0
      timer2   == IF counting THEN timer1 - 1 ELSE timer1
  IN  [prev_btn |-> cur_btn, btn_down |-> down2, btn_timer |-> timer2,
       long_p |-> (counting /\ timer2 = 0),
       short_p |-> released]

\* a debounce that registers a press or a release on one sample
DebounceOneSample(b, cur_btn) ==
  LET pressed  == cur_btn /\ ~b.btn_down
      down1    == IF pressed THEN TRUE ELSE b.btn_down
      timer1   == IF pressed THEN LongPressTicks ELSE b.btn_timer
      released == ~cur_btn /\ down1
      down2    == IF released THEN FALSE ELSE down1
      counting == down2 /\ timer1 # 0
      timer2   == IF counting THEN timer1 - 1 ELSE timer1
  IN  [prev_btn |-> cur_btn, btn_down |-> down2, btn_timer |-> timer2,
       long_p |-> (counting /\ timer2 = 0),
       short_p |-> (released /\ timer2 # 0)]

\* ctrl_debounce_button (ctrl_task.c:174-218) for the sample cur_btn of the
\* button input: the new statics and the two outputs
ctrl_debounce_button(b, cur_btn) ==
  LET pressed  == cur_btn /\ b.prev_btn /\ ~b.btn_down
      down1    == IF pressed THEN TRUE ELSE b.btn_down
      timer1   == IF pressed THEN LongPressTicks ELSE b.btn_timer
      released == ~cur_btn /\ ~b.prev_btn /\ down1
      down2    == IF released THEN FALSE ELSE down1
      counting == down2 /\ timer1 # 0
      timer2   == IF counting THEN timer1 - 1 ELSE timer1
  IN  [prev_btn |-> cur_btn, btn_down |-> down2, btn_timer |-> timer2,
       long_p |-> (counting /\ timer2 = 0),
       short_p |-> (released /\ timer2 # 0)]

\* case CTRL_ST_RUN of ctrl_eval_sm: the bits sent to vid_task
\* variant: the events are forwarded in every control state
ButtonBitsAnyState(state, short_p, long_p) ==
  (IF short_p THEN {VID_NOTIFY_PARM_CHANGE_MASK} ELSE {})
  \cup (IF long_p THEN {VID_NOTIFY_PARM_SELECT_MASK} ELSE {})

ButtonBits(state, short_p, long_p) ==
  IF state = CTRL_ST_RUN
    THEN (IF short_p THEN {VID_NOTIFY_PARM_CHANGE_MASK} ELSE {})
         \cup (IF long_p THEN {VID_NOTIFY_PARM_SELECT_MASK} ELSE {})
    ELSE {}

\* history of the registered press in progress, or of the last one: ticks
\* it has been held (the tick that registered it included), events fired;
\* and the number of presses registered.  ObsSampled adds the level the
\* button input was sampled at in the last tick and in the tick before.
ObsSampled(o, cur_btn) == [o EXCEPT !.sample = cur_btn, !.before = o.sample]

ObsPressStep(o, was_down, d) ==
  IF d.btn_down /\ ~was_down
    THEN [o EXCEPT !.held = 1, !.longs = IF d.long_p THEN 1 ELSE 0,
                   !.shorts = IF d.short_p THEN 1 ELSE 0,
                   !.presses = Saturate(@ + 1, MaxPresses)]
    ELSE [o EXCEPT !.held = IF d.btn_down THEN Saturate(@ + 1, LongPressTicks + 1) ELSE @,
                   !.longs = Saturate(@ + (IF d.long_p THEN 1 ELSE 0), 2),
                   !.shorts = Saturate(@ + (IF d.short_p THEN 1 ELSE 0), 2)]

\* ctrl_eval_led_sm(); ctrl_eval_sm() (ctrl_task.c:111-112) for the sample
\* cur_btn of the button input.  ctrl_eval_sm leaves the control and LED
\* state alone in the three defined control states.
CtrlEvalTick(cur_btn) ==
  /\ ctrl_pc = "eval"
  /\ CtrlAssign(EvalLedSm(CtrlRec, ctrl_fault_type))
  /\ obs_red_phases' =
       LET n == EvalLedSm(CtrlRec, ctrl_fault_type).led_state IN
       IF n = CTRL_LED_ST_FLT_ON /\ ctrl_led_state = CTRL_LED_ST_FLT_IDLE THEN 1
       ELSE IF n = CTRL_LED_ST_FLT_ON /\ ctrl_led_state = CTRL_LED_ST_FLT_OFF
         THEN Saturate(obs_red_phases + 1, MaxPhases)
       ELSE obs_red_phases
  /\ LET d == ctrl_debounce_button(BtnRec, cur_btn)
     IN  /\ prev_btn' = d.prev_btn
         /\ btn_down' = d.btn_down
         /\ btn_timer' = d.btn_timer
         /\ btn_short_press' = d.short_p
         /\ btn_long_press' = d.long_p
         /\ vid_notif' = vid_notif \cup ButtonBits(ctrl_state, d.short_p, d.long_p)
         /\ obs_press' = ObsSampled(ObsPressStep(obs_press, btn_down, d), cur_btn)
  /\ ctrl_pc' = "notif"
  /\ obs_notif' = NotifSent(NotifLoopEnd(obs_notif, CtrlTypes),
                            ButtonBits(ctrl_state, ctrl_debounce_button(BtnRec, cur_btn).short_p,
                                       ctrl_debounce_button(BtnRec, cur_btn).long_p))
  /\ UNCHANGED <<mainVars, sysVars, lepVars, storeVars, vidVars, faultVars,
                 obs_cycle, obs_order, obsLepVars, obs_parm, obs_ps, obs_render, pixVars>>

\* the button is not touched
CtrlEval == CtrlEvalTick(FALSE)

\* one poll of ctrl_eval_sm in CTRL_ST_RUN on the button statics b, the
\* history o and the bits sent to vid_task so far
PressResult(acc, d) ==
  [b |-> [prev_btn |-> d.prev_btn, btn_down |-> d.btn_down, btn_timer |-> d.btn_timer],
   o |-> ObsPressStep(acc.o, acc.b.btn_down, d),
   bits |-> acc.bits \cup ButtonBits(CTRL_ST_RUN, d.short_p, d.long_p),
   short_p |-> d.short_p, long_p |-> d.long_p]

PressTick(acc, cur_btn) ==
  [PressResult(acc, ctrl_debounce_button(acc.b, cur_btn))
     EXCEPT !.o = ObsSampled(@, cur_btn)]

\* the polls in the middle of a countdown, the button sampled closed in
\* each: btn_timer - 1 calls that decrement the countdown and leave it
\* above zero
PressHold(acc) ==
  [acc EXCEPT !.b.btn_timer = 1,
              !.o.held = @ + (acc.b.btn_timer - 1),
              !.short_p = FALSE, !.long_p = FALSE]

\* closed for two polls, then open for two
ShortPress(acc) ==
  PressTick(PressTick(PressTick(PressTick(acc, TRUE), TRUE), FALSE), FALSE)

\* closed until the countdown has reached zero, then open for two polls
LongPress(acc) ==
  PressTick(PressTick(PressTick(PressHold(PressTick(PressTick(acc, TRUE), TRUE)),
                                TRUE), FALSE), FALSE)

\* One whole button press in Run, taken in one step: the polls of ctrl_task
\* from the first closed sample to the second open one.  Nothing is pending
\* for ctrl_task and the LED state machine is at rest, so these polls change
\* the button statics and the notification word of vid_task only.
CtrlEvalPress ==
  /\ ctrl_pc = "eval"
  /\ ctrl_state = CTRL_ST_RUN
  /\ ctrl_notif = {}
  /\ \A c \in Callers : sft[c] = SftIdle
  /\ EvalLedSm(CtrlRec, ctrl_fault_type) = CtrlRec
  /\ vid_pc # "not_created"
  /\ ~prev_btn /\ ~btn_down
  /\ obs_press.presses < MaxPresses
  /\ \E long \in BOOLEAN :
       LET a == [b |-> BtnRec, o |-> obs_press, bits |-> {},
                 short_p |-> FALSE, long_p |-> FALSE]
           r == IF long THEN LongPress(a) ELSE ShortPress(a)
       IN  /\ prev_btn' = r.b.prev_btn
           /\ btn_down' = r.b.btn_down
           /\ btn_timer' = r.b.btn_timer
           /\ btn_short_press' = r.short_p
           /\ btn_long_press' = r.long_p
           /\ vid_notif' = vid_notif \cup r.bits
           /\ obs_press' = r.o
           /\ obs_notif' = NotifSent(NotifLoopEnd(obs_notif, CtrlTypes), r.bits)
  /\ ctrl_pc' = "notif"
  /\ UNCHANGED <<mainVars, sysVars, lepVars, storeVars, vidVars, ctrl_state, ctrlLedVars,
                 faultVars, obs_cycle, obs_order, obsLepVars, obs_red_phases, obs_parm, obs_ps,
                 obs_render, pixVars>>

\* the button input is sampled at any level
CtrlEvalButton == \E cur_btn \in BOOLEAN : CtrlEvalTick(cur_btn)

ctrl_task ==
  \/ CtrlTaskInit
  \/ CtrlHandleNotifications
  \/ CtrlEval

ctrl_task_button ==
  \/ CtrlTaskInit
  \/ CtrlHandleNotifications
  \/ CtrlEvalButton

(***************************************************************************)
(* render.c: render_lep_data.  A frame is the record of a lep_buffer_t:    *)
(* buf, the samples row by row, and the minimum and maximum the            *)
(* acquisition has found in them.  A raster is IMG_BUF_WIDTH by            *)
(* IMG_BUF_HEIGHT bytes, row by row.                                       *)
(***************************************************************************)
\* a scaling that maps every sample at or above the maximum to 255
LinearizeMaxWhite(v, min_val, max_val) ==
  IF v < min_val THEN 0
  ELSE IF v >= max_val THEN 255
  ELSE ((v - min_val) * 255) \div (max_val - min_val)

\* the linear scale of a 16-bit sample to 8 bits (render.c:193-209, 247-260);
\* the maximum of a frame is not below its minimum, so the 32-bit difference
\* does not wrap, and (v - min_val) * 255 is below 2^24
Linearize(v, min_val, max_val) ==
  LET diff == IF max_val - min_val = 0 THEN 1 ELSE max_val - min_val
      t32 == ((v - min_val) * 255) \div diff
  IN  IF v < min_val THEN 0 ELSE IF t32 > 255 THEN 255 ELSE t32

\* (uint8_t) v
Low8(v) == v % 256

\* the palette modifier left at 0 whatever the palette
PaletteModNone(t8, black_hot) == t8

\* t8 ^ render_palette_mod, the modifier being 0xFF or 0
PaletteMod(t8, black_hot) == IF black_hot THEN 255 - t8 ELSE t8

\* the sample at column x, row y of a buffer
SampleAt(buf, x, y) == buf[y * LEP_WIDTH + x]

\* render_double_agc_data and the loop of render_double_rad_data: every
\* sample fills a square of two by two bytes
DoubleImg(bytes, black_hot) ==
  [i \in 0..(IMG_BUF_WIDTH * IMG_BUF_HEIGHT - 1) |->
     PaletteMod(SampleAt(bytes, (i % IMG_BUF_WIDTH) \div 2, (i \div IMG_BUF_WIDTH) \div 2),
                black_hot)]

render_double_rad_data(f, black_hot) ==
  [frame |-> f,
   img |-> DoubleImg([i \in DOMAIN f.buf |->
                        Linearize(f.buf[i], f.lep_min_val, f.lep_max_val)], black_hot)]

render_double_agc_data(f, black_hot) ==
  [frame |-> f,
   img |-> DoubleImg([i \in DOMAIN f.buf |-> Low8(f.buf[i])], black_hot)]

\* the source nearest to a destination column or row, and the next nearest
InterpNear(c) == c \div 2
InterpFar(c) == IF c % 2 = 1 THEN c \div 2 + 1 ELSE c \div 2 - 1

\* one byte of render_interp_agc_data: a corner copies its sample
\* (interp_set_pixel), the rest of the outer rows and columns mixes two
\* samples (interp_set_outer_row, interp_set_outer_col), the inner bytes
\* mix four (interp_set_inner)
InterpPixel(buf, x, y) ==
  LET edge_x == x = 0 \/ x = IMG_BUF_WIDTH - 1
      edge_y == y = 0 \/ y = IMG_BUF_HEIGHT - 1
      nx == InterpNear(x)
      ny == InterpNear(y)
      fx == InterpFar(x)
      fy == InterpFar(y)
  IN  IF edge_x /\ edge_y THEN Low8(SampleAt(buf, nx, ny))
      ELSE IF edge_y
        THEN (RENDER_SF_DS * Low8(SampleAt(buf, nx, ny)) + Low8(SampleAt(buf, fx, ny))) \div DIV_DS
      ELSE IF edge_x
        THEN (RENDER_SF_DS * Low8(SampleAt(buf, nx, ny)) + Low8(SampleAt(buf, nx, fy))) \div DIV_DS
      ELSE (RENDER_SF_QS * Low8(SampleAt(buf, nx, ny)) + Low8(SampleAt(buf, fx, ny))
            + Low8(SampleAt(buf, nx, fy)) + Low8(SampleAt(buf, fx, fy))) \div DIV_QS

render_interp_agc_data(buf, black_hot) ==
  [i \in 0..(IMG_BUF_WIDTH * IMG_BUF_HEIGHT - 1) |->
     PaletteMod(InterpPixel(buf, i % IMG_BUF_WIDTH, i \div IMG_BUF_WIDTH), black_hot)]

\* a corner write with the raster's row taken as LEP_WIDTH bytes
InterpSetPixelSourceStride(src, x, y, black_hot) ==
  [at |-> y * LEP_WIDTH + x, val |-> PaletteMod(Low8(src), black_hot)]

\* The writes of render_interp_agc_data in the order the code makes them,
\* each the offset from img and the byte stored there.
\* interp_set_pixel(src, img, x, y)
interp_set_pixel(src, x, y, black_hot) ==
  [at |-> y * 2 * LEP_WIDTH + x, val |-> PaletteMod(Low8(src), black_hot)]

\* the four corner writes of render_interp_agc_data
InterpCorners(buf, black_hot) ==
  << interp_set_pixel(buf[0], 0, 0, black_hot),
     interp_set_pixel(buf[LEP_WIDTH - 1], 2 * LEP_WIDTH - 1, 0, black_hot),
     interp_set_pixel(buf[LEP_WIDTH * (LEP_HEIGHT - 1)], 0, 2 * LEP_HEIGHT - 1, black_hot),
     interp_set_pixel(buf[LEP_WIDTH * (LEP_HEIGHT - 1) + (LEP_WIDTH - 1)],
                      2 * LEP_WIDTH - 1, 2 * LEP_HEIGHT - 1, black_hot) >>

\* interp_set_outer_row: pass x of the loop reads A and B at src + x and
\* src + x + 1 and stores two bytes through img++
interp_set_outer_row(buf, first_row, black_hot) ==
  LET src == IF first_row THEN 0 ELSE (LEP_HEIGHT - 1) * LEP_WIDTH
      img == IF first_row THEN 1 ELSE (2 * LEP_HEIGHT - 1) * LEP_WIDTH * 2 + 1
  IN  [k \in 1..(2 * (LEP_WIDTH - 1)) |->
         LET x == (k - 1) \div 2
             A == Low8(buf[src + x])
             B == Low8(buf[src + x + 1])
             sub_pixel == IF k % 2 = 1 THEN (RENDER_SF_DS * A + B) \div DIV_DS
                                       ELSE (A + RENDER_SF_DS * B) \div DIV_DS
         IN  [at |-> img + (k - 1), val |-> PaletteMod(sub_pixel, black_hot)]]

\* interp_set_outer_col: pass y reads A and B one source row apart and
\* stores two bytes one raster row apart
interp_set_outer_col(buf, first_col, black_hot) ==
  LET src == IF first_col THEN 0 ELSE LEP_WIDTH - 1
      img == IF first_col THEN 2 * LEP_WIDTH ELSE 2 * LEP_WIDTH + (2 * LEP_WIDTH - 1)
  IN  [k \in 1..(2 * (LEP_HEIGHT - 1)) |->
         LET y == (k - 1) \div 2
             A == Low8(buf[src + y * LEP_WIDTH])
             B == Low8(buf[src + (y + 1) * LEP_WIDTH])
             sub_pixel == IF k % 2 = 1 THEN (RENDER_SF_DS * A + B) \div DIV_DS
                                       ELSE (A + RENDER_SF_DS * B) \div DIV_DS
         IN  [at |-> img + (k - 1) * 2 * LEP_WIDTH, val |-> PaletteMod(sub_pixel, black_hot)]]

\* interp_set_inner: src advances by LEP_WIDTH per line (LEP_WIDTH - 1
\* passes and the src++ after them), img by 2 per pass and by
\* 2 * LEP_WIDTH + 2 after a line; a pass stores Ad, Cb, Bc, Da
interp_set_inner(buf, black_hot) ==
  [k \in 1..(4 * (LEP_WIDTH - 1) * (LEP_HEIGHT - 1)) |->
     LET pass == (k - 1) \div 4
         y == pass \div (LEP_WIDTH - 1)
         x == pass % (LEP_WIDTH - 1)
         src == y * LEP_WIDTH + x
         img == (2 * LEP_WIDTH + 1) + y * 4 * LEP_WIDTH + 2 * x
         A == Low8(buf[src])
         B == Low8(buf[src + 1])
         C == Low8(buf[src + LEP_WIDTH])
         D == Low8(buf[src + LEP_WIDTH + 1])
     IN  CASE (k - 1) % 4 = 0 ->
                [at |-> img,
                 val |-> PaletteMod((RENDER_SF_QS * A + B + C + D) \div DIV_QS, black_hot)]
           [] (k - 1) % 4 = 1 ->
                [at |-> img + 2 * LEP_WIDTH,
                 val |-> PaletteMod((A + B + RENDER_SF_QS * C + D) \div DIV_QS, black_hot)]
           [] (k - 1) % 4 = 2 ->
                [at |-> img + 1,
                 val |-> PaletteMod((A + RENDER_SF_QS * B + C + D) \div DIV_QS, black_hot)]
           [] OTHER ->
                [at |-> img + 1 + 2 * LEP_WIDTH,
                 val |-> PaletteMod((A + B + C + RENDER_SF_QS * D) \div DIV_QS, black_hot)]]

\* all the writes of render_interp_agc_data(buf, img)
InterpWrites(buf, black_hot) ==
  InterpCorners(buf, black_hot)
    \o interp_set_outer_row(buf, TRUE, black_hot)
    \o interp_set_outer_row(buf, FALSE, black_hot)
    \o interp_set_outer_col(buf, TRUE, black_hot)
    \o interp_set_outer_col(buf, FALSE, black_hot)
    \o interp_set_inner(buf, black_hot)

\* a raster after the writes of a log: a byte holds the last value stored in it
ApplyWrites(img, log) ==
  [i \in DOMAIN img |->
     LET ks == {k \in DOMAIN log : log[k].at = i}
     IN  IF ks = {} THEN img[i] ELSE log[CHOOSE k \in ks : \A j \in ks : j <= k].val]

\* the buffer render_lep_data gives to render_interp_agc_data
InterpSource(f, g) ==
  IF g.agc_enabled THEN f.buf
  ELSE [i \in DOMAIN f.buf |-> Linearize(f.buf[i], f.lep_min_val, f.lep_max_val)]

\* render_interp_rad_data writes the scaled samples to the frame's own
\* buffer, then renders that buffer
render_interp_rad_data(f, black_hot) ==
  LET lin == [i \in DOMAIN f.buf |-> Linearize(f.buf[i], f.lep_min_val, f.lep_max_val)]
  IN  [frame |-> [f EXCEPT !.buf = lin],
       img |-> render_interp_agc_data(lin, black_hot)]

\* render_lep_data(lep, img, g): the frame and the raster after the call
render_lep_data(f, g) ==
  IF g.display_interp_enable
    THEN IF g.agc_enabled
           THEN [frame |-> f, img |-> render_interp_agc_data(f.buf, g.black_hot_palette)]
           ELSE render_interp_rad_data(f, g.black_hot_palette)
    ELSE IF g.agc_enabled
           THEN render_double_agc_data(f, g.black_hot_palette)
           ELSE render_double_rad_data(f, g.black_hot_palette)

\* the samples of the frames given to the pipeline
SampleValues == {0, 100, 300, 65535}

\* a frame of samples that rise by 50 from 100
RampFrame == [i \in 0..(LEP_WIDTH * LEP_HEIGHT - 1) |-> 100 + 50 * i]

SetMin(S) == CHOOSE v \in S : \A w \in S : v <= w
SetMax(S) == CHOOSE v \in S : \A w \in S : v >= w

\* the acquisition has written a frame to the slot, with its minimum and
\* maximum.  A render fills the whole raster from the frame alone, so the
\* frames and rasters before it are left out: the frame is the first one.
FrameWritten ==
  /\ obs_render.calls = 0
  /\ lep_frame = FrameZero
  /\ rend_img = ImgZero
  /\ \E b \in [0..(LEP_WIDTH * LEP_HEIGHT - 1) -> SampleValues] \cup {RampFrame} :
       lep_frame' = [buf |-> b,
                     lep_min_val |-> SetMin({b[i] : i \in DOMAIN b}),
                     lep_max_val |-> SetMax({b[i] : i \in DOMAIN b})]
  /\ obs_render' = [obs_render EXCEPT !.calls = 0, !.loaded = lep_frame']
  /\ UNCHANGED <<mainVars, sysVars, lepVars, storeVars, vidVars, vid_notif, ctrlVars,
                 faultVars, obs_cycle, obs_order, obsLepVars, obs_red_phases, obs_press, obs_parm,
                 obs_ps, rend_img, obs_scale, obs_notif>>

\* the GUI state given to render_lep_data
RenderInputs ==
  [black_hot_palette : BOOLEAN, display_interp_enable : BOOLEAN, agc_enabled : BOOLEAN]

\* the GUI state with the other palette
OtherPalette(g) == [g EXCEPT !.black_hot_palette = ~@]

\* render_lep_data on the slot; the second render of a frame is made with
\* the GUI state of the first.  other_img is the raster that the first render
\* fills from the same frame with the other palette.
RenderFrame ==
  /\ obs_render.calls < 2
  /\ \E g \in RenderInputs :
       /\ obs_render.calls = 1 => g = obs_render.g
       /\ lep_frame' = render_lep_data(lep_frame, g).frame
       /\ rend_img' = render_lep_data(lep_frame, g).img
       /\ obs_render' = [obs_render EXCEPT
                           !.calls = @ + 1,
                           !.g = g,
                           !.first_img = IF obs_render.calls = 0 THEN rend_img' ELSE @,
                           !.other_img =
                              IF obs_render.calls = 0
                                THEN render_lep_data(lep_frame, OtherPalette(g)).img
                                ELSE @,
                           !.writes =
                              IF obs_render.calls > 0 THEN @
                              ELSE IF g.display_interp_enable
                                THEN InterpWrites(InterpSource(lep_frame, g), g.black_hot_palette)
                                ELSE <<>>]
  /\ UNCHANGED <<mainVars, sysVars, lepVars, storeVars, vidVars, vid_notif, ctrlVars,
                 faultVars, obs_cycle, obs_order, obsLepVars, obs_red_phases, obs_press, obs_parm,
                 obs_ps, obs_scale, obs_notif>>

\* the samples, minima and maxima given to the scaling
ScaleValues == {0, 100, 175, 250, 251, 65535}

\* one pass of the scaling loop of render_double_rad_data and
\* render_interp_rad_data: a sample of a frame whose minimum is not above its
\* maximum is scaled to a byte
ScaleSample ==
  /\ \E v \in ScaleValues, min_val \in ScaleValues, max_val \in ScaleValues :
       /\ min_val <= max_val
       /\ obs_scale' = [v |-> v, min_val |-> min_val, max_val |-> max_val,
                        t8 |-> Linearize(v, min_val, max_val), scaled |-> TRUE]
  /\ UNCHANGED <<mainVars, sysVars, lepVars, storeVars, vidVars, vid_notif, ctrlVars,
                 faultVars, obsVars, lep_frame, rend_img, obs_notif>>

(***************************************************************************)
(* Specifications                                                          *)
(***************************************************************************)
\* acquisition and video tasks with the boot sequence (ctrl_task not
\* scheduled).  The failed passes of the acquisition loop between two events
\* change no state that another task reads, and are taken in one step.
NextHandoff == app_main \/ lep_task_burst \/ vid_task \/ ctrl_set_fault_type

SpecHandoff == Init /\ [][NextHandoff]_vars

\* acquisition task alone with the boot sequence, every pass of its loop a step
NextAcq == app_main \/ lep_task \/ ctrl_set_fault_type

SpecAcq == Init /\ [][NextAcq]_vars

\* lep_task runs again after each vTaskDelay, and a caller of
\* ctrl_set_fault_type runs to the end of the call
SpecAcqFair == SpecAcq /\ WF_vars(lep_task) /\ WF_vars(ctrl_set_fault_type)

\* boot sequence, acquisition and control tasks (vid_task not scheduled), the
\* failed passes of the acquisition loop taken in one step as above
NextFault == app_main \/ lep_task_burst \/ ctrl_task \/ ctrl_set_fault_type

SpecFault == Init /\ [][NextFault]_vars

\* boot sequence, interface bring-up of the acquisition task and control task
NextBoot ==
  app_main \/ LepCciInit \/ LepVospiInit \/ ctrl_task \/ ctrl_set_fault_type

SpecBoot == Init /\ [][NextBoot]_vars

\* ctrl_task wakes up every CTRL_EVAL_MSEC, and a caller of
\* ctrl_set_fault_type runs to the end of the call
SpecBootFair ==
  SpecBoot /\ WF_vars(ctrl_task) /\ WF_vars(ctrl_set_fault_type)

\* boot sequence and control task, the button input free
NextButton == app_main \/ ctrl_task_button \/ ctrl_set_fault_type

SpecButton == Init /\ [][NextButton]_vars

\* the passes of vid_task's loop while no frame arrives
vid_task_parm ==
  \/ VidInit
  \/ VidHandleNotifications
  \/ VidEvalParmUpdate
  \/ \E K \in 0..1 : VidImageCheck(K)
  \/ VidDelay

\* boot sequence, control task with whole button presses in Run, and the
\* parameter session of the video task (lep_task not scheduled), from any
\* stored parameters
NextParm ==
  \/ app_main
  \/ ctrl_task
  \/ CtrlEvalPress
  \/ vid_task_parm
  \/ ctrl_set_fault_type

SpecParm == InitStored /\ [][NextParm]_vars

\* the set-up of lep_task up to the configuration of the sensor
\* (lep_task.c:89-106)
lep_task_setup == LepCciInit \/ LepVospiInit

\* a whole press once lep_task has left its set-up, which takes less time
\* than the long press that opens the emissivity group
CtrlEvalPressAfterSetup ==
  /\ lep_pc \in {"loop", "deleted_cci", "deleted_vospi"}
  /\ CtrlEvalPress

\* the parameter session after the set-up of lep_task, which hands the stored
\* emissivity to the sensor
NextParmLep ==
  \/ app_main
  \/ ctrl_task
  \/ lep_task_setup
  \/ CtrlEvalPressAfterSetup
  \/ vid_task_parm
  \/ ctrl_set_fault_type

SpecParmLep == InitStored /\ [][NextParmLep]_vars

\* the pass of _vid_eval_parm_update that finds the deadline passed
\* (video_task.c:289-290)
ParmExpires ==
  /\ VidEvalParmUpdate
  /\ ~notify_parm_val_change /\ ~notify_parm_sel_change
  /\ parm_entry_timeout # 0
  /\ parm_entry_timeout' = 0

\* vid_task runs its loop every VID_EVAL_MSEC, and the clock it reads goes
\* on: of the passes made while a deadline is armed, one finds it passed
SpecParmFair == SpecParmLep /\ WF_vars(vid_task_parm) /\ SF_vars(ParmExpires)

\* boot sequence and calls of the storage interface, from any stored
\* parameters
NextPs == app_main \/ ctrl_set_fault_type \/ PsSetParm \/ PsGetParm

SpecPs == InitStored /\ [][NextPs]_vars

\* frames written to a slot and rendered
NextRender == FrameWritten \/ RenderFrame

SpecRender == Init /\ [][NextRender]_vars

\* The notifications of a receiver with the tasks that send to it: vid_task
\* with ctrl_task and the button (lep_task not scheduled), vid_task with
\* lep_task (ctrl_task not scheduled), or ctrl_task with lep_task (vid_task
\* not scheduled) up to MaxFaultCalls fault reports and fault clears.
InitNotify == \E w \in {NotifyTypes, VidTypes, CtrlTypes} : InitAll(NvsFirstBoot, w)

NextNotify ==
  \/ app_main
  \/ ctrl_set_fault_type
  \/ obs_notif.watch = NotifyTypes /\ (ctrl_task \/ CtrlEvalPress \/ vid_task_parm)
  \/ obs_notif.watch = VidTypes /\ (lep_task_frames \/ vid_task)
  \/ obs_notif.watch = CtrlTypes /\ obs_notif.calls < MaxFaultCalls /\ lep_task_frames
  \/ obs_notif.watch = CtrlTypes /\ ctrl_task

SpecNotify == InitNotify /\ [][NextNotify]_vars

\* samples scaled to the dynamic range of a frame
NextScale == ScaleSample

SpecScale == Init /\ [][NextScale]_vars

(***************************************************************************)
(* Claims                                                                  *)
(***************************************************************************)
LepWriting(k) == lep_buf[k] = "writing"

\* C1: the render of slot k never overlaps a write of raw-frame slot k by the
\* acquisition task, and the other way round.
C1_NoConcurrentSlotAccess ==
  \A k \in 0..1 : ~(LepWriting(k) /\ VidRendering(k))

\* C2: whatever _vid_display_image has copied to the video output is the
\* result of a finished render: never a render buffer that was never rendered
\* or is being rendered.
C2_DisplayedIsRendered ==
  drv_fb \notin {"uninit", "rendering"}

\* C3: the buffer operations of a handled "slot K ready" notification are
\* display of render slot 1-K, then render of slot K, in that order and
\* nothing else.
C3_Cycle(K) == << <<"display", 1 - K>>, <<"render", K>> >>

C3_InBlock(K) ==
  vid_pc \in {VidAt("display", K), VidAt("render", K), VidAt("render_end", K)}

C3_DisplayOtherThenRender ==
  obs_cycle.k # -1 =>
    /\ Len(obs_cycle.ops) <= 2
    /\ obs_cycle.ops = SubSeq(C3_Cycle(obs_cycle.k), 1, Len(obs_cycle.ops))
    /\ (vid_pc = VidAt("display", obs_cycle.k) => obs_cycle.ops = <<>>)
    /\ (~C3_InBlock(obs_cycle.k) => obs_cycle.ops = C3_Cycle(obs_cycle.k))

C3_Witness ==
  /\ obs_cycle.k = 1
  /\ obs_cycle.ops = C3_Cycle(1)
  /\ drv_fb = "complete"

\* C4: the acquisition task writes a slot only under its lock, emits the ready
\* signal only after the write is complete and the lock released, and holds
\* no lock while it sleeps or waits for the sync edge.
C4_LepBlocked ==
  lep_pc \in {"not_created", "cci_init", "vospi_init", "loop", "resync_pause",
              "delay", "deleted_cci", "deleted_vospi"}

C4_ProducerContract ==
  /\ \A k \in 0..1 : LepWriting(k) => lep_mutex[k] = "lep"
  /\ lep_pc \in {"get_frame", "get_frame_end", "give"} => lep_mutex[vid_buf_index] = "lep"
  /\ lep_pc = "give" => lep_buf[vid_buf_index] = "frame"
  /\ lep_pc = "notify" => /\ \A k \in 0..1 : lep_mutex[k] = "free"
                          /\ lep_buf[vid_buf_index] = "frame"
  /\ C4_LepBlocked => \A k \in 0..1 : lep_mutex[k] = "free"

C4_Witness ==
  /\ lep_pc = "notify"
  /\ vid_buf_index = 1
  /\ lep_buf[1] = "frame"
  /\ VID_NOTIFY_LEP_FRAME_MASK_1 \in vid_notif

\* the step that reports the synchronisation fault: the failure limit is reached
C5_LimitReached ==
  /\ sft["lep"].step = "idle"
  /\ sft'["lep"].step = "save"
  /\ sft'["lep"].f = CTRL_FAULT_LEP_SYNC

C5_ToError ==
  task_state' = STATE_ERROR /\ reset_fail_count' = LEP_RESET_FAIL_RETRY_SECS

\* C5 as stated: the first time the limit is reached the controller goes to
\* ReInit; when it is reached again after that ReInit succeeded it goes to
\* Error with the countdown armed.
C5_FirstReInitThenError ==
  [][C5_LimitReached =>
       /\ obs_escalation = "none" => task_state' = STATE_RE_INIT
       /\ obs_escalation = "reinit_ok" => C5_ToError]_vars

\* C5 amended: when the limit is reached and no reset has been attempted since
\* the last successfully received frame (or since boot) the controller goes to
\* ReInit; when a reset has been attempted since the last successfully
\* received frame it goes to Error with the countdown armed to
\* LEP_RESET_FAIL_RETRY_SECS.
C5_ResetOncePerFrameLoss ==
  [][C5_LimitReached =>
       IF obs_reset_since_frame THEN C5_ToError
                                ELSE task_state' = STATE_RE_INIT]_vars

C5_Witness ==
  /\ task_state = STATE_ERROR
  /\ reset_fail_count = LEP_RESET_FAIL_RETRY_SECS
  /\ sft["lep"] = [step |-> "save", f |-> CTRL_FAULT_LEP_SYNC]
  /\ obs_reset_since_frame
  /\ lep_buf[0] = "frame"

\* C6: a resynchronisation pause happens exactly when 36 transfers in a row
\* have failed since the last frame or the last pause; the miss count restarts
\* at 0 at the pause and at every frame.
C6_PauseEvery36Misses ==
  /\ (lep_pc = "resync_pause") <=> (obs_miss_run = 36)
  /\ obs_miss_run <= 36
  /\ vsync_count = IF lep_pc = "resync_pause" THEN 0 ELSE obs_miss_run

C6_Witness ==
  /\ lep_pc = "resync_pause"
  /\ obs_miss_run = 36
  /\ vsync_count = 0
  /\ lep_buf[0] = "frame"

CtrlPoll == ctrl_pc = "notif" /\ ctrl_pc' = "eval"

\* C7: when the control task processes a fault-clear notification the control
\* state becomes the state before the fault was reported, Startup or Run.
C7_ClearRestoresPreFaultState ==
  [][(CtrlPoll /\ CTRL_NOTIFY_FAULT_CLEAR \in ctrl_notif) =>
        ctrl_state' \in {CTRL_ST_STARTUP, CTRL_ST_RUN}]_vars

\* no report or clear is on its way to the control task
C8_Settled ==
  /\ \A c \in Callers : sft[c].step = "idle"
  /\ ctrl_notif \cap {CTRL_NOTIFY_FAULT, CTRL_NOTIFY_FAULT_CLEAR} = {}

\* C8: while the control state is Fault a blink burst has as many red-on
\* phases as the active fault code: never more while it runs, exactly as many
\* when it ends in the Idle pause.
C8_BlinkCountIsFaultCode ==
  (ctrl_state = CTRL_ST_FAULT /\ C8_Settled) =>
     /\ ctrl_led_state \in {CTRL_LED_ST_FLT_ON, CTRL_LED_ST_FLT_OFF} =>
          obs_red_phases <= ctrl_fault_type
     /\ ctrl_led_state = CTRL_LED_ST_FLT_IDLE => obs_red_phases = ctrl_fault_type

C9_FatalAt(code) ==
  CASE code = CTRL_FAULT_ESP32_INIT -> main_pc = "halt_esp32"
    [] code = CTRL_FAULT_PERIPH_INIT -> main_pc = "halt_periph"
    [] code = CTRL_FAULT_MEM_INIT -> main_pc = "halt_mem"
    [] code = CTRL_FAULT_LEP_CCI -> lep_pc = "deleted_cci"
    [] code = CTRL_FAULT_LEP_VOSPI -> lep_pc = "deleted_vospi"

C9_MainHalted == main_pc \in {"halt_esp32", "halt_periph", "halt_mem"}

\* C9: after a failed boot step (codes 1, 2, 3) or a failed interface
\* initialisation of the acquisition task (codes 4, 5) the failing context
\* stays where it is, main has sent no startup-complete and started no later
\* task, and the control state becomes Fault with that code and stays Fault.
C9_FatalBringupIsPermanentFault ==
  /\ [](C9_MainHalted =>
          /\ vid_pc = "not_created"
          /\ lep_pc = "not_created"
          /\ CTRL_NOTIFY_STARTUP_DONE \notin ctrl_notif
          /\ ctrl_state # CTRL_ST_RUN)
  /\ \A code \in 1..5 :
        /\ [](C9_FatalAt(code) => [](C9_FatalAt(code)))
        /\ [](C9_FatalAt(code) =>
                <>[](ctrl_state = CTRL_ST_FAULT /\ ctrl_fault_type = code))

C9_Witness ==
  /\ lep_pc = "deleted_vospi"
  /\ ctrl_state = CTRL_ST_FAULT
  /\ ctrl_fault_type = CTRL_FAULT_LEP_VOSPI
  /\ ctrl_led_state = CTRL_LED_ST_FLT_IDLE

C10_FaultPending ==
  CTRL_NOTIFY_FAULT \in ctrl_notif \/ ctrl_state = CTRL_ST_FAULT

\* C10: the poll that processes startup-complete ends in Run only from Startup
\* with no fault pending; with a fault reported before (and not cleared) it
\* ends in Fault.
C10_StartupDoneRespectsFault ==
  [][(CtrlPoll /\ CTRL_NOTIFY_STARTUP_DONE \in ctrl_notif) =>
       /\ C10_FaultPending => ctrl_state' # CTRL_ST_RUN
       /\ (C10_FaultPending /\ CTRL_NOTIFY_FAULT_CLEAR \notin ctrl_notif) =>
             ctrl_state' = CTRL_ST_FAULT
       /\ ctrl_state' = CTRL_ST_RUN => ctrl_state = CTRL_ST_STARTUP]_vars

C10_Witness ==
  /\ ctrl_pc = "eval"
  /\ ctrl_state = CTRL_ST_FAULT
  /\ ctrl_fault_type = CTRL_FAULT_LEP_CCI
  /\ ctrl_led_timer = CTRL_FAULT_BLINK_ON_MSEC \div CTRL_EVAL_MSEC
  /\ ctrl_fault_led_count = CTRL_FAULT_LEP_CCI
  /\ main_pc = "done"
  /\ ctrl_pre_activity_state = CTRL_ST_STARTUP

\* C11: a registered button press produces exactly one event.  While the
\* press is held no short-press has fired and the long-press has fired exactly
\* when the countdown is at zero; the long-press fires on the tick that makes
\* the press LongPressTicks ticks old; once released, exactly one of the two
\* events has fired; the two outputs are never set in the same tick.
C11_OneEventPerPress ==
  /\ ~(btn_short_press /\ btn_long_press)
  /\ obs_press.longs + obs_press.shorts <= 1
  /\ btn_down => /\ obs_press.shorts = 0
                 /\ (obs_press.longs = 1) = (btn_timer = 0)
                 /\ btn_timer # 0 => obs_press.held + btn_timer = LongPressTicks
  /\ (obs_press.held > 0 /\ ~btn_down) => obs_press.longs + obs_press.shorts = 1
  /\ btn_long_press => btn_down /\ obs_press.held = LongPressTicks
  /\ btn_short_press => ~btn_down /\ obs_press.held < LongPressTicks

\* a short press is reported after an earlier long press was sent to vid_task
C11_Witness ==
  /\ btn_short_press
  /\ obs_press.shorts = 1
  /\ ctrl_state = CTRL_ST_RUN
  /\ vid_notif = {VID_NOTIFY_PARM_SELECT_MASK, VID_NOTIFY_PARM_CHANGE_MASK}

\* the call of _vid_eval_parm_update that handles an event
ParmHandles(branch) ==
  /\ vid_pc = "parm"
  /\ vid_pc' # "parm"
  /\ CASE branch = "short" -> notify_parm_val_change
       [] branch = "long" -> ~notify_parm_val_change /\ notify_parm_sel_change
       [] branch = "timeout" -> /\ ~notify_parm_val_change
                                /\ ~notify_parm_sel_change
                                /\ parm_entry_timeout # 0
                                /\ parm_entry_timeout' = 0

\* C12: counting the long-presses handled since the session was in group 0
\* (at start, after a timeout, or after the third long-press), after one or
\* two the session is in group 1 or 2, after three it is in group 0, and
\* right after the third no deadline is armed.
C12_ThreeLongPressesCycle ==
  /\ obs_parm.longs \in {1, 2} => cur_parm_index = obs_parm.longs
  /\ obs_parm.longs = 3 => cur_parm_index = 0
  /\ (obs_parm.longs = 3 /\ obs_parm.last = "long") => parm_entry_timeout = 0

\* three long-presses, the first after a short-press in group 0
C12_Witness ==
  /\ obs_parm.longs = 3
  /\ obs_parm.last = "long"
  /\ obs_press.presses = 4
  /\ cur_parm_index = 0
  /\ parm_entry_timeout = 0
  /\ ps.val_palette_marker = 1

\* C13: the call that handles a short-press moves to another value, makes the
\* live option of the active group follow it (palette and marker flags in
\* group 0, the sensor's emissivity in group 1, the display unit in group 2),
\* arms the deadline, and changes neither the stored parameters nor the group.
C13_ShortPressPreviews ==
  [][ParmHandles("short") =>
       /\ cur_parm_value' # cur_parm_value
       /\ cur_parm_value' \in 0..cur_parm_max_index
       /\ CASE cur_parm_index = 0 ->
                 /\ gui_state'.black_hot_palette = (cur_parm_value' \in {2, 3})
                 /\ gui_state'.min_max_enable = (cur_parm_value' \in {1, 3})
                 /\ gui_state'.spotmeter_enable = (cur_parm_value' \in {1, 3})
            [] cur_parm_index = 1 ->
                 lep_emissivity' = parm_e_value[cur_parm_value' + 1]
            [] cur_parm_index = 2 ->
                 gui_state'.temp_unit_C = (cur_parm_value' = 1)
       /\ parm_entry_timeout' = PARM_ENTRY_TIMEOUT_MSEC
       /\ ps' = ps /\ nvs' = nvs
       /\ cur_parm_index' = cur_parm_index]_vars

\* a short-press in group 1 has changed the sensor's emissivity, not the
\* stored one
C13_Witness ==
  /\ obs_parm.last = "short"
  /\ cur_parm_index = 1
  /\ lep_emissivity = 100
  /\ ps.val_emissivity = 99
  /\ nvs.emissivity = <<99>>
  /\ parm_entry_timeout = PARM_ENTRY_TIMEOUT_MSEC

\* the stored value of a group
C14_Stored(p, group) ==
  CASE group = 0 -> p.val_palette_marker
    [] group = 1 -> p.val_emissivity
    [] group = 2 -> p.val_units

\* the entry value of a group for a stored value
C14_Entry(v, group) ==
  IF group = 1
    THEN IF \E i \in 0..22 : parm_e_value[i + 1] = v
           THEN CHOOSE i \in 0..22 : parm_e_value[i + 1] = v
           ELSE 22
    ELSE v

\* C14: the call that handles a long-press changes the stored parameters
\* exactly when the value differs from the one the group was entered with;
\* then the group's key holds the group's value, in RAM and in flash, and the
\* other keys are as before; the session is in the next group (0 after 2),
\* with the current and previous value those of the new group's stored value.
C14_LongPressCommits ==
  [][ParmHandles("long") =>
       LET changed == cur_parm_value # obs_parm.entry
           value == IF cur_parm_index = 1 THEN parm_e_value[cur_parm_value + 1]
                                          ELSE cur_parm_value
           next == (cur_parm_index + 1) % 3
       IN  /\ (ps' # ps) = changed
           /\ (nvs' # nvs) = changed
           /\ changed => C14_Stored(ps', cur_parm_index) = value
           /\ \A g \in 0..2 \ {cur_parm_index} : C14_Stored(ps', g) = C14_Stored(ps, g)
           /\ nvs' = [palette_marker |-> <<ps'.val_palette_marker>>,
                      emissivity |-> <<ps'.val_emissivity>>,
                      units |-> <<ps'.val_units>>]
           /\ cur_parm_index' = next
           /\ cur_parm_value' = C14_Entry(C14_Stored(ps', next), next)
           /\ prev_parm_value' = cur_parm_value']_vars

\* the emissivity 75 found in flash was shown as the last entry, changed to
\* the first with a short-press and stored by the long-press
C14_Witness ==
  /\ obs_parm.last = "long"
  /\ cur_parm_index = 2
  /\ ps.val_emissivity = 10
  /\ nvs = [palette_marker |-> <<3>>, emissivity |-> <<10>>, units |-> <<1>>]
  /\ cur_parm_value = 1
  /\ prev_parm_value = 1

\* long-presses from a state of the session to the end of the cycle
C15_LongPressToEnd(s) ==
  CASE s.cur_parm_index = 0 -> ParmSelChange(ParmSelChange(ParmSelChange(s)))
    [] s.cur_parm_index = 1 -> ParmSelChange(ParmSelChange(s))
    [] s.cur_parm_index = 2 -> ParmSelChange(s)

\* C15: the call that handles the timeout leaves the session, the live
\* options and the stored parameters as the long-presses to the end of the
\* cycle would: group 0, no deadline, the pending change stored.
C15_TimeoutIsLongPressToEnd ==
  [][ParmHandles("timeout") =>
       /\ ParmState' = C15_LongPressToEnd(ParmState)
       /\ cur_parm_index' = 0
       /\ parm_entry_timeout' = 0
       /\ cur_parm_value # prev_parm_value =>
             C14_Stored(ps', cur_parm_index) =
               (IF cur_parm_index = 1 THEN parm_e_value[cur_parm_value + 1]
                                      ELSE cur_parm_value)]_vars

\* two long-presses and a short-press, then the timeout has stored the unit
C15_Witness ==
  /\ obs_parm.last = "timeout"
  /\ obs_press.presses = 3
  /\ cur_parm_index = 0
  /\ parm_entry_timeout = 0
  /\ ps.val_units = 1
  /\ nvs = [palette_marker |-> <<0>>, emissivity |-> <<99>>, units |-> <<1>>]

\* C16 as stated: in group 0 no deadline is armed.
C16_Group0NoDeadline ==
  cur_parm_index = 0 => parm_entry_timeout = 0

\* C16, amended: in group 0 a deadline is armed exactly when a short-press
\* has been handled since the session entered the group (at start, with the
\* third long-press, or with a timeout).
C16_Group0DeadlineOnlyAfterShortPress ==
  cur_parm_index = 0 =>
    parm_entry_timeout = (IF obs_parm.touched THEN PARM_ENTRY_TIMEOUT_MSEC ELSE 0)

\* back in group 0 after three long-presses, then a short-press
C16_Witness ==
  /\ cur_parm_index = 0
  /\ obs_parm.longs = 3
  /\ obs_parm.touched
  /\ parm_entry_timeout = PARM_ENTRY_TIMEOUT_MSEC
  /\ cur_parm_value # ps.val_palette_marker

\* the values given to the lookup
EmissivityInputs == -1..MaxEmissivity

\* the lookup is the inverse of parm_e_value, and gives the last index for
\* any other value
C18_LookupTable ==
  /\ \A i \in 0..22 : vid_get_emissivity_index(parm_e_value[i + 1]) = i
  /\ \A e \in EmissivityInputs :
       (\A i \in 0..22 : parm_e_value[i + 1] # e) => vid_get_emissivity_index(e) = 22

\* C18: _vid_get_emissivity_index(parm_e_value[i]) = i for every index, any
\* value not in parm_e_value gives index 22; and when group 1 is entered the
\* current value is the index of the stored emissivity, 22 for one that is not
\* in the list.
C18_EmissivityIndexRoundTrip ==
  /\ C18_LookupTable
  /\ (cur_parm_index = 1 /\ ~obs_parm.touched) =>
       /\ cur_parm_value \in 0..22
       /\ \/ parm_e_value[cur_parm_value + 1] = ps.val_emissivity
          \/ /\ cur_parm_value = 22
             /\ \A i \in 0..22 : parm_e_value[i + 1] # ps.val_emissivity

\* group 1 entered with the emissivity 75 stored
C18_Witness ==
  /\ cur_parm_index = 1
  /\ obs_parm.last = "long"
  /\ ps.val_emissivity = 75
  /\ cur_parm_value = 22
  /\ parm_e_value[cur_parm_value + 1] = 100

\* C17: after ps_set_parm(key, v) for one of the three keys, ps_get_parm(key)
\* is v and ps_get_parm of the other two keys is what it was before the call.
C17_SetGetRoundTrip ==
  (obs_ps.op = "set" /\ obs_ps.index \in 0..2) =>
     /\ ps_get_parm(ps, obs_ps.index) = obs_ps.val
     /\ \A k \in 0..2 \ {obs_ps.index} : ps_get_parm(ps, k) = ps_get_parm(obs_ps.ps, k)

\* the units were set to -1 with the palette 3 and the emissivity 75 stored
C17_Witness ==
  /\ obs_ps.op = "set"
  /\ obs_ps.index = 2
  /\ obs_ps.val = -1
  /\ obs_ps.ps = [val_palette_marker |-> 3, val_emissivity |-> 75, val_units |-> 1]
  /\ ps = [val_palette_marker |-> 3, val_emissivity |-> 75, val_units |-> -1]

\* C19: for an index other than the three keys, ps_get_parm returns 0 and
\* ps_set_parm leaves the three values, in RAM and in flash, as they were.
C19_InvalidIndexIgnored ==
  obs_ps.index \notin 0..2 =>
     /\ obs_ps.op = "get" => obs_ps.ret = 0
     /\ obs_ps.op = "set" => ps = obs_ps.ps /\ nvs = obs_ps.nvs

\* index 3 was read with a value other than 0 stored under every key
C19_Witness ==
  /\ obs_ps.op = "get"
  /\ obs_ps.index = 3
  /\ obs_ps.ret = 0
  /\ ps = [val_palette_marker |-> 3, val_emissivity |-> 75, val_units |-> 1]

\* C20: render_lep_data leaves the frame it renders as the acquisition wrote
\* it, samples, minimum and maximum, whatever the strategy; and the second
\* render of the frame fills the raster as the first did.
C20_RenderLeavesSlotUnchanged ==
  /\ obs_render.calls >= 1 => lep_frame = obs_render.loaded
  /\ obs_render.calls = 2 => rend_img = obs_render.first_img

\* a xor b on n bits
RECURSIVE XorBits(_, _, _)
XorBits(a, b, n) ==
  IF n = 0 THEN 0 ELSE ((a + b) % 2) + 2 * XorBits(a \div 2, b \div 2, n - 1)

\* C21: for every frame and each of the four strategies, the raster rendered
\* with the black-hot palette and the raster rendered from the same frame with
\* the white-hot palette are complementary at every byte: a[i] = 0xFF xor b[i].
C21_PalettesComplementary ==
  obs_render.calls >= 1 =>
     \A i \in DOMAIN obs_render.first_img :
        obs_render.first_img[i] = XorBits(255, obs_render.other_img[i], 8)

\* an interpolated radiometric render of the frame {0, 100, 300, 300} with the
\* black-hot palette: the top row is 255, 234, 192, 170 and the other
\* palette gives 0, 21, 63, 85
C21_Witness ==
  /\ obs_render.calls = 1
  /\ obs_render.g = [black_hot_palette |-> TRUE, display_interp_enable |-> TRUE,
                     agc_enabled |-> FALSE]
  /\ obs_render.loaded.buf = [i \in 0..3 |-> IF i = 0 THEN 0 ELSE IF i = 1 THEN 100 ELSE 300]
  /\ obs_render.first_img[1] = 234
  /\ obs_render.other_img[1] = 21

\* (v - min) * 255 / d, the difference d floored to 1
C22_Scaled(v, min_val, max_val) ==
  ((v - min_val) * 255) \div (IF max_val = min_val THEN 1 ELSE max_val - min_val)

\* C22 as stated: a sample below the minimum is scaled to 0, a sample at or
\* above the maximum to 255, any other sample to floor((v - min) * 255 / d).
C22_AtOrAboveMaxIs255 ==
  obs_scale.scaled =>
     obs_scale.t8 =
        IF obs_scale.v < obs_scale.min_val THEN 0
        ELSE IF obs_scale.v >= obs_scale.max_val THEN 255
        ELSE C22_Scaled(obs_scale.v, obs_scale.min_val, obs_scale.max_val)

\* C22 amended: a sample below the minimum is scaled to 0; a sample at or
\* above the maximum is scaled to 255, except in a frame whose minimum equals
\* its maximum, where a sample equal to them is scaled to 0; any other sample
\* is scaled to floor((v - min) * 255 / (max - min)).  The result is within
\* 0..255, the product (v - min) * 255 is below 2^32, and with minimum 100
\* and maximum 250 the sample 175 is scaled to 127.
C22_ScaleToRange ==
  obs_scale.scaled =>
     /\ obs_scale.t8 =
          IF obs_scale.v < obs_scale.min_val THEN 0
          ELSE IF obs_scale.v = obs_scale.min_val /\ obs_scale.min_val = obs_scale.max_val
            THEN 0
          ELSE IF obs_scale.v >= obs_scale.max_val THEN 255
          ELSE C22_Scaled(obs_scale.v, obs_scale.min_val, obs_scale.max_val)
     /\ obs_scale.t8 \in 0..255
     /\ obs_scale.v >= obs_scale.min_val =>
          ((obs_scale.v - obs_scale.min_val) * 255) \div 65536 < 65536
     /\ (obs_scale.v = 175 /\ obs_scale.min_val = 100 /\ obs_scale.max_val = 250) =>
          obs_scale.t8 = 127

\* a sample of a frame whose samples are all 100
C22_Witness ==
  obs_scale = [v |-> 100, min_val |-> 100, max_val |-> 100, t8 |-> 0, scaled |-> TRUE]

\* the 8-bit source grid of the first render
C23_Grid ==
  [i \in DOMAIN obs_render.loaded.buf |->
     Low8(InterpSource(obs_render.loaded, obs_render.g)[i])]

\* the reference value of the output pixel in column x and row y: its owner
\* is the source pixel it lies in, its neighbours are the next source pixels
\* on the side of the owner the output pixel is on
C23_Reference(grid, x, y) ==
  LET ox == x \div 2
      oy == y \div 2
      sx == IF x % 2 = 1 THEN ox + 1 ELSE ox - 1
      sy == IF y % 2 = 1 THEN oy + 1 ELSE oy - 1
      on_col == x \in {0, 2 * LEP_WIDTH - 1}
      on_row == y \in {0, 2 * LEP_HEIGHT - 1}
      owner == grid[oy * LEP_WIDTH + ox]
  IN  IF on_col /\ on_row THEN owner
      ELSE IF on_row THEN (3 * owner + grid[oy * LEP_WIDTH + sx]) \div 4
      ELSE IF on_col THEN (3 * owner + grid[sy * LEP_WIDTH + ox]) \div 4
      ELSE (5 * owner + grid[oy * LEP_WIDTH + sx] + grid[sy * LEP_WIDTH + ox]
              + grid[sy * LEP_WIDTH + sx]) \div 8

\* C23: the interpolated doubler writes every byte of the raster exactly
\* once, and the byte it writes is the reference value XORed with the palette
\* modifier: the source corner in the 4 corners, floor((3*owner + neighbour)/4)
\* on the rest of the outer rows and columns, and
\* floor((5*owner + n1 + n2 + n3)/8) elsewhere.
C23_InterpWritesOnceReference ==
  (obs_render.calls >= 1 /\ obs_render.g.display_interp_enable) =>
     /\ \A i \in DOMAIN ImgZero :
          Cardinality({k \in DOMAIN obs_render.writes : obs_render.writes[k].at = i}) = 1
     /\ \A k \in DOMAIN obs_render.writes :
          LET w == obs_render.writes[k]
          IN  /\ w.at \in DOMAIN ImgZero
              /\ w.val = XorBits(IF obs_render.g.black_hot_palette THEN 255 ELSE 0,
                                 C23_Reference(C23_Grid, w.at % (2 * LEP_WIDTH),
                                               w.at \div (2 * LEP_WIDTH)), 8)
     /\ obs_render.first_img = ApplyWrites(ImgZero, obs_render.writes)

\* the grid 100, 150 / 200, 250 rendered white-hot: 125 and 175 down the
\* left column between 100 and 200, and 137 for the inner pixel of owner 100
C23_Witness ==
  /\ obs_render.calls = 1
  /\ obs_render.g = [black_hot_palette |-> FALSE, display_interp_enable |-> TRUE,
                     agc_enabled |-> TRUE]
  /\ obs_render.loaded.buf = RampFrame
  /\ Len(obs_render.writes) = 4 * LEP_WIDTH * LEP_HEIGHT
  /\ obs_render.first_img[0] = 100
  /\ obs_render.first_img[2 * LEP_WIDTH] = 125
  /\ obs_render.first_img[4 * LEP_WIDTH] = 175
  /\ obs_render.first_img[2 * LEP_WIDTH + 1] = 137

\* the notification word of the receiver of a type
C24_Word(T) == IF T \in VidTypes THEN vid_notif ELSE ctrl_notif

\* a bit is pending exactly when the type was sent since the last poll,
\* however many times; no handling runs without a notification read before
\* it; a receiver polls at most once per loop iteration; and ctrl_task has
\* handled what it has read when its poll ends
C24_Merged ==
  /\ \A T \in obs_notif.watch : (T \in C24_Word(T)) <=> (obs_notif.sent[T] > 0)
  /\ ~obs_notif.spurious
  /\ obs_notif.vid_polls <= 1
  /\ obs_notif.ctrl_polls <= 1
  /\ \A T \in CtrlTypes : obs_notif.got[T] = 0

\* the step of _vid_eval_parm_update that handles the short-press
\* notifications read: one step of the value, however many were sent
C24_OneStep ==
  (vid_pc = "parm" /\ vid_pc' # "parm" /\ notify_parm_val_change) =>
     cur_parm_value' = IF cur_parm_value + 1 > cur_parm_max_index
                         THEN 0 ELSE cur_parm_value + 1

\* C24 as stated: for each notification type, the sends between two
\* consecutive polls of the receiver, however many, are handled exactly once:
\* a handling serves the notifications read by one poll.  A receiver polls at
\* most once per loop iteration, and two short-press notifications read by
\* one poll advance the value by one step.
C24_OneHandlingPerPollWindow ==
  /\ [](C24_Merged)
  /\ [](\A T \in NotifyTypes : obs_notif.reads[T] <= 1)
  /\ [][C24_OneStep]_vars

\* C24 amended: as stated for every type but the long-press notification of
\* vid_task, which is handled in the loop iteration of the poll that read it.
\* A long-press notification read while a short-press notification is
\* handled stays pending at the end of the loop iteration; it is handled
\* once in a later iteration, and that handling also serves the long-press
\* notifications read by the polls in between.
C24_OneHandlingSelectDeferred ==
  /\ [](C24_Merged)
  /\ [](\A T \in NotifyTypes \ {VID_NOTIFY_PARM_SELECT_MASK} : obs_notif.reads[T] <= 1)
  /\ [](vid_pc = "delay" =>
          /\ \A T \in VidTypes \ {VID_NOTIFY_PARM_SELECT_MASK} : obs_notif.got[T] = 0
          /\ obs_notif.got[VID_NOTIFY_PARM_SELECT_MASK] > 0 =>
                obs_notif.served[VID_NOTIFY_PARM_CHANGE_MASK] > 0)
  /\ [][C24_OneStep]_vars

\* two short-press notifications and a long-press notification were read by
\* one poll and the value of the palette group advanced by one step; the
\* next poll has read another long-press notification, and the two are about
\* to be handled as one
C24_Witness ==
  /\ vid_pc = "parm"
  /\ obs_notif.reads[VID_NOTIFY_PARM_SELECT_MASK] = 2
  /\ obs_notif.got[VID_NOTIFY_PARM_SELECT_MASK] = 2
  /\ obs_press.presses = 4
  /\ cur_parm_index = PARM_INDEX_MARKER
  /\ cur_parm_value = 1
  /\ notify_parm_sel_change
  /\ ~notify_parm_val_change

\* the step that enters STATE_RE_INIT
C25_EnterReInit == task_state # STATE_RE_INIT /\ task_state' = STATE_RE_INIT

\* C25: the acquisition controller never enters ReInit twice without, in
\* between, a successfully received frame or a complete Error countdown of
\* LEP_RESET_FAIL_RETRY_SECS idle periods: it enters ReInit either when no
\* reset was attempted since the last frame (or since boot), or from Error
\* at the end of the countdown.
C25_OneResetBeforeBackOff ==
  [][C25_EnterReInit =>
       \/ ~obs_reset_since_frame
       \/ /\ task_state = STATE_ERROR
          /\ obs_error_idles' = LEP_RESET_FAIL_RETRY_SECS]_vars

\* a reset succeeded, no frame followed, the failure limit was reached again
\* and the controller is back in ReInit after the whole countdown
C25_Witness ==
  /\ task_state = STATE_RE_INIT
  /\ obs_reset_since_frame
  /\ ctrl_fault_type = CTRL_FAULT_LEP_SYNC
  /\ obs_error_idles = LEP_RESET_FAIL_RETRY_SECS

C26_EnterError == task_state # STATE_ERROR /\ task_state' = STATE_ERROR

C26_LeaveError == task_state = STATE_ERROR /\ task_state' # STATE_ERROR

\* C26: the countdown is armed to LEP_RESET_FAIL_RETRY_SECS on every entry to
\* Error and is positive while the controller is in Error; the controller
\* leaves Error only for ReInit, after exactly LEP_RESET_FAIL_RETRY_SECS idle
\* periods; from Error it always reaches ReInit, so a controller that is in
\* Error again and again resets the sensor again and again.
C26_ErrorLeadsToReInit ==
  /\ [](task_state = STATE_ERROR => reset_fail_count \in 1..LEP_RESET_FAIL_RETRY_SECS)
  /\ [][C26_EnterError => reset_fail_count' = LEP_RESET_FAIL_RETRY_SECS]_vars
  /\ [][C26_LeaveError => /\ task_state' = STATE_RE_INIT
                          /\ reset_fail_count' = 0
                          /\ obs_error_idles' = LEP_RESET_FAIL_RETRY_SECS]_vars
  /\ (task_state = STATE_ERROR ~> task_state = STATE_RE_INIT)
  /\ ([]<>(task_state = STATE_ERROR) => []<>(task_state = STATE_RE_INIT))

\* the bring-up after a reset failed, and the countdown that followed has
\* brought the controller to ReInit again
C26_Witness ==
  /\ task_state = STATE_RE_INIT
  /\ reset_fail_count = 0
  /\ obs_error_idles = LEP_RESET_FAIL_RETRY_SECS
  /\ obs_reset_since_frame
  /\ ctrl_fault_type = CTRL_FAULT_LEP_CCI
  /\ lep_buf[0] = "frame"

\* the step of STATE_INIT or STATE_RE_INIT that calls lepton_init()
C27_BringUp == task_state \in {STATE_INIT, STATE_RE_INIT} /\ task_state' # task_state

\* C27: when lepton_init() fails in Init or in ReInit the step reports
\* CTRL_FAULT_LEP_CCI, enters Error and arms the countdown to
\* LEP_RESET_FAIL_RETRY_SECS; when it succeeds the step enters Run and
\* reports no fault.  No other step leaves Init or ReInit.
C27_BringUpOutcome ==
  [][/\ C27_BringUp =>
          IF obs_bring_up' = "fail"
            THEN /\ task_state' = STATE_ERROR
                 /\ reset_fail_count' = LEP_RESET_FAIL_RETRY_SECS
                 /\ ctrl_fault_type' = CTRL_FAULT_LEP_CCI
                 /\ sft'["lep"] = [step |-> "save", f |-> CTRL_FAULT_LEP_CCI]
            ELSE /\ obs_bring_up' = "ok"
                 /\ task_state' = STATE_RUN
                 /\ UNCHANGED <<sft, ctrl_fault_type, ctrl_notif>>
     /\ (task_state \in {STATE_INIT, STATE_RE_INIT} /\ obs_bring_up' # obs_bring_up)
          => C27_BringUp]_vars

\* the bring-up after a reset has failed: the fault is being reported and the
\* countdown is armed
C27_Witness ==
  /\ obs_bring_up = "fail"
  /\ obs_reset_since_frame
  /\ task_state = STATE_ERROR
  /\ reset_fail_count = LEP_RESET_FAIL_RETRY_SECS
  /\ sft["lep"] = [step |-> "save", f |-> CTRL_FAULT_LEP_CCI]
  /\ obs_error_idles = 0

\* the step that ends a resynchronisation pause
C28_Pause == lep_pc = "resync_pause" /\ lep_pc' = "loop"

\* the step starts the report of a synchronisation fault
C28_Reports ==
  /\ sft'["lep"] = [step |-> "save", f |-> CTRL_FAULT_LEP_SYNC]
  /\ sft["lep"] # sft'["lep"]

\* the failure counter after a pause: 0 at the pause that reports the fault,
\* otherwise the number of the pause
C28_Counter ==
  [][C28_Pause => /\ C28_Reports <=> obs_sync'.reported
                  /\ sync_fail_count' = IF obs_sync'.reported THEN 0 ELSE obs_sync'.n]_vars

\* C28 as stated: the fault is reported at the pause number
\* LEP_SYNC_FAIL_FAULT_LIMIT of a run of consecutive pauses with no frame in
\* between, and at no other pause; the counter is then 0.
C28_ReportAtLimitPauses ==
  /\ [](obs_sync.reported <=> obs_sync.n = LEP_SYNC_FAIL_FAULT_LIMIT)
  /\ C28_Counter

\* C28 amended: the fault is reported at the pause that finds the counter
\* equal to LEP_SYNC_FAIL_FAULT_LIMIT, the pause number
\* LEP_SYNC_FAIL_FAULT_LIMIT + 1 of a run of consecutive pauses with no frame
\* in between, and at no other pause; the counter is then 0.
C28_ReportAfterLimitPauses ==
  /\ [](obs_sync.reported <=> obs_sync.n = LEP_SYNC_FAIL_FAULT_LIMIT + 1)
  /\ C28_Counter

\* the pause number LEP_SYNC_FAIL_FAULT_LIMIT + 1 since the last frame has
\* reported the fault and cleared the counter
C28_Witness ==
  /\ obs_sync.reported
  /\ obs_sync.n = LEP_SYNC_FAIL_FAULT_LIMIT + 1
  /\ sync_fail_count = 0
  /\ sft["lep"] = [step |-> "save", f |-> CTRL_FAULT_LEP_SYNC]
  /\ task_state = STATE_RE_INIT
  /\ lep_buf[1] = "frame"

\* the step of lep_task.c:150-156 after a frame was received
C29_FrameStep == lep_pc = "fault_clear" /\ lep_pc' = "delay"

\* the step calls ctrl_set_fault_type(CTRL_FAULT_NONE)
C29_Clears ==
  /\ sft'["lep"] = [step |-> "notify", f |-> CTRL_FAULT_NONE]
  /\ ctrl_fault_type' = CTRL_FAULT_NONE

\* C29: the first frame received after the acquisition controller has
\* reported a synchronisation fault issues a fault-clear.
C29_FirstFrameClearsSyncFault ==
  [][(C29_FrameStep /\ obs_sync.faulted) => C29_Clears]_vars

\* what the code does: a frame issues a fault-clear exactly when the failure
\* counter stands at the limit, that is when LEP_SYNC_FAIL_FAULT_LIMIT pauses
\* have passed since the last frame or the last report
C29_ClearAtLimitOnly ==
  [][C29_FrameStep => (C29_Clears <=> sync_fail_count = LEP_SYNC_FAIL_FAULT_LIMIT)]_vars

\* the step that sends a ready signal
C30_Signal == lep_pc = "notify" /\ lep_pc' # lep_pc

\* the step that begins to write a frame to a slot
C30_Write == lep_pc = "get_frame" /\ lep_pc' # lep_pc

\* the slot after the one of the last signal, slot 0 before the first signal
C30_Next(last) == IF last = NoSlot THEN <<0>> ELSE IF last[1] = 0 THEN <<1>> ELSE <<0>>

\* C30: the ready signals of the acquisition task name slot 0 first and then
\* the slots in turn, whatever happens between two frames; a signal names the
\* slot that was just written, and the next frame is written to the other
\* slot.
C30_ReadySignalsAlternate ==
  /\ [][C30_Signal =>
          /\ obs_ready'.signalled = obs_ready.written
          /\ obs_ready'.signalled = C30_Next(obs_ready.signalled)
          /\ lep_buf[obs_ready'.signalled[1]] = "frame"]_vars
  /\ [][C30_Write =>
          /\ obs_ready'.written = C30_Next(obs_ready.signalled)
          /\ lep_buf'[obs_ready'.written[1]] = "writing"]_vars

\* the frame in slot 0 was followed by a synchronisation fault, a reset that
\* failed, the Error countdown and a reset that succeeded; the next frame was
\* written to slot 1 and the signal has named slot 1
C30_Witness ==
  /\ lep_pc = "fault_clear"
  /\ obs_ready = [written |-> <<1>>, signalled |-> <<1>>]
  /\ vid_buf_index = 0
  /\ lep_buf = [k \in 0..1 |-> "frame"]
  /\ reset_fail_count = 1
  /\ ctrl_fault_type = CTRL_FAULT_LEP_CCI
  /\ VID_NOTIFY_LEP_FRAME_MASK_2 \in vid_notif

\* the poll of ctrl_task reads a fault and a fault-clear notification together
C31_BothPending ==
  CtrlPoll /\ {CTRL_NOTIFY_FAULT, CTRL_NOTIFY_FAULT_CLEAR} \subseteq ctrl_notif

\* C31: when a fault notification and a fault-clear notification are pending
\* at one poll of the control task the fault is processed before the clear:
\* after the poll the control state is the remembered pre-fault state, which
\* is not Fault.
C31_FaultThenClearInOnePoll ==
  [][C31_BothPending => /\ ctrl_state' = ctrl_pre_activity_state
                        /\ ctrl_state' # CTRL_ST_FAULT]_vars

\* what the code does at such a poll: the control state becomes the
\* remembered state, whatever it is
C31_ClearWinsInOnePoll ==
  [][C31_BothPending => ctrl_state' = ctrl_pre_activity_state]_vars

\* one tick of ctrl_task's loop after the poll
C32_Tick == ctrl_pc = "eval" /\ ctrl_pc' = "notif"

\* the registered level and the two events of a debounce result are those of
\* another
C32_Same(d, e) ==
  /\ d.btn_down = e.btn_down
  /\ d.btn_timer = e.btn_timer
  /\ d.short_p = e.short_p
  /\ d.long_p = e.long_p

C32_Statics(d) ==
  [prev_btn |-> d.prev_btn, btn_down |-> d.btn_down, btn_timer |-> d.btn_timer]

\* from a state whose last sample is the registered level, one sample at the
\* other level followed by a sample at the registered level has the effect of
\* two samples at the registered level
C32_GlitchIgnored ==
  (prev_btn = btn_down) =>
     LET g1 == ctrl_debounce_button(BtnRec, ~btn_down)
         n1 == ctrl_debounce_button(BtnRec, btn_down)
         g2 == ctrl_debounce_button(C32_Statics(g1), btn_down)
         n2 == ctrl_debounce_button(C32_Statics(n1), btn_down)
     IN  C32_Same(g1, n1) /\ C32_Same(g2, n2) /\ ~g1.short_p /\ ~g2.short_p

\* C32: a press is registered only on a tick that samples the button pressed
\* after a tick that sampled it pressed, a release only on a tick that samples
\* it released after a tick that sampled it released; a tick whose sample
\* differs from the sample before registers nothing and reports no short
\* press, and a long press only for the press that is held; a level that
\* differs for a single tick leaves the registered level, the countdown and
\* the events as they are without it.
C32_TwoSamplesToRegister ==
  /\ [][C32_Tick =>
          /\ (btn_down' /\ ~btn_down) => (obs_press'.sample /\ obs_press'.before)
          /\ (~btn_down' /\ btn_down) => (~obs_press'.sample /\ ~obs_press'.before)
          /\ btn_short_press' => (btn_down /\ ~btn_down')
          /\ btn_long_press' => (btn_down' /\ obs_press'.held = LongPressTicks)
          /\ (obs_press'.sample # obs_press'.before) =>
                (btn_down' = btn_down /\ ~btn_short_press')]_vars
  /\ [](obs_press.sample = prev_btn /\ C32_GlitchIgnored)

\* a press was registered, the next tick sampled the button released and the
\* tick after it pressed: the press is still held and no event has fired
C32_Witness ==
  /\ btn_down
  /\ obs_press.held = 3
  /\ obs_press.sample
  /\ ~obs_press.before
  /\ obs_press.shorts = 0
  /\ obs_press.longs = 0
  /\ btn_timer = LongPressTicks - 3

\* the number of values of a group
C33_N(index) ==
  CASE index = PARM_INDEX_MARKER -> 4
    [] index = PARM_INDEX_EMISSIVITY -> 23
    [] index = PARM_INDEX_UNITS -> 2

\* the session after n handled short-presses
RECURSIVE C33_Presses(_, _)
C33_Presses(s, n) == IF n = 0 THEN s ELSE C33_Presses(ParmValChange(s), n - 1)

\* the live options of a session
C33_Live(s) == <<s.gui_state, s.lep_emissivity>>

C33_Session == vid_pc \notin {"not_created", "init"}

\* lep_task has handed the stored emissivity to the sensor
C33_Configured == lep_pc = "loop"

\* a handled short-press advances the value of the active group by one,
\* modulo the number of values of the group
C33_Advance ==
  [][ParmHandles("short") =>
       /\ cur_parm_max_index = C33_N(cur_parm_index) - 1
       /\ cur_parm_value' = (cur_parm_value + 1) % C33_N(cur_parm_index)]_vars

\* C33 as stated: each handled short-press advances the value by one modulo
\* N, and N short-presses in a row return the value and the live options to
\* where they started.
C33_CycleReturnsValueAndOption ==
  /\ C33_Advance
  /\ [](C33_Session =>
          LET t == C33_Presses(ParmState, C33_N(cur_parm_index))
          IN  /\ t.cur_parm_value = cur_parm_value
              /\ t.gui_state = gui_state
              /\ C33_Configured => C33_Live(t) = C33_Live(ParmState))

\* C33 amended: the value returns to where it started and the live options
\* to those of that value, which are the ones the cycle started with unless
\* the group is the emissivity and the sensor's emissivity is not
\* parm_e_value[value], as in group 1 entered with a stored emissivity that is
\* not one of the 23 values (shown as the last value).
C33_CycleReturnsValue ==
  /\ C33_Advance
  /\ [](C33_Session =>
          LET t == C33_Presses(ParmState, C33_N(cur_parm_index))
              e == parm_e_value[cur_parm_value + 1]
          IN  /\ t.cur_parm_value = cur_parm_value
              /\ t.gui_state = gui_state
              /\ t.lep_emissivity =
                   IF cur_parm_index = PARM_INDEX_EMISSIVITY THEN e ELSE lep_emissivity)

\* four short-presses in group 0 have been handled one by one since boot and
\* the value and the flags are the ones of the start
C33_Witness ==
  /\ obs_press.presses = 4
  /\ cur_parm_index = PARM_INDEX_MARKER
  /\ obs_parm.longs = 0
  /\ obs_parm.last = "short"
  /\ obs_parm.touched
  /\ cur_parm_value = 0
  /\ ps.val_palette_marker = 0
  /\ vid_notif = {} /\ ~notify_parm_sel_change /\ ~notify_parm_val_change
  /\ ~gui_state.black_hot_palette /\ ~gui_state.min_max_enable
  /\ C33_Configured

\* group 1 entered with a stored emissivity that is not in the table: the
\* sensor has the stored one, the session shows the last value
C33_UnknownStored ==
  /\ C33_Session /\ C33_Configured
  /\ cur_parm_index = PARM_INDEX_EMISSIVITY
  /\ cur_parm_value = NUM_E_PARM_VALS - 1
  /\ lep_emissivity = ps.val_emissivity
  /\ \A i \in 1..NUM_E_PARM_VALS : parm_e_value[i] # lep_emissivity

\* the frame step of lep_task.c:150-156 begins a call of
\* ctrl_set_fault_type(CTRL_FAULT_NONE)
C34_SendsClear ==
  /\ C29_FrameStep
  /\ sft["lep"].step = "idle"
  /\ sft'["lep"] = [step |-> "notify", f |-> CTRL_FAULT_NONE]

\* C34: the acquisition task issues a fault-clear only while a fault is
\* active: no fault-clear is sent when no fault has been reported or when the
\* last reported fault was already cleared.
C34_ClearOnlyWhileFaultActive ==
  [][C34_SendsClear => ctrl_fault_type # CTRL_FAULT_NONE]_vars

\* a fault-clear was issued in a run with no fault reported since the last
\* frame
C34_ClearWithoutFault ==
  /\ sft["lep"] = [step |-> "notify", f |-> CTRL_FAULT_NONE]
  /\ lep_pc = "delay"
  /\ ~obs_sync.faulted

\* C35: whenever the control task has processed all notifications sent so
\* far, the control state is Fault if and only if the active fault code is
\* not zero.
C35_FaultStateIffFaultCode ==
  C8_Settled => (ctrl_state = CTRL_ST_FAULT <=> ctrl_fault_type # CTRL_FAULT_NONE)

\* the control state is Fault with every notification processed and no
\* fault active
C35_FaultAfterClear ==
  /\ C8_Settled
  /\ ctrl_pc = "eval"
  /\ ctrl_state = CTRL_ST_FAULT
  /\ ctrl_fault_type = CTRL_FAULT_NONE

\* one direction of C35: settled in Fault, a fault is active
C35_FaultStateHasFaultCode ==
  (C8_Settled /\ ctrl_state = CTRL_ST_FAULT) => ctrl_fault_type # CTRL_FAULT_NONE

\* C36: frames reach the video output in acquisition order: the frame on the
\* output is never older than a frame that has been on the output before.
C36_DisplayInAcquisitionOrder == obs_order.last = obs_order.shown

\* a pass of ctrl_eval_sm
C37_Tick == ctrl_pc = "eval" /\ ctrl_pc' = "notif"

\* the pass has detected a short press or a long press
C37_Event == btn_short_press' \/ btn_long_press'

\* C37: button events are forwarded only while the control state is Run: a
\* pass of ctrl_eval_sm in Startup or Fault sends no notification to the video
\* task and changes no option, group or stored setting, whatever it detects;
\* a pass that sends one is in Run and has detected the event it sends.
C37_ForwardedOnlyInRun ==
  [][C37_Tick =>
       /\ ctrl_state # CTRL_ST_RUN =>
            /\ vid_notif' = vid_notif
            /\ UNCHANGED <<parmVars, sysVars>>
       /\ vid_notif' # vid_notif => (ctrl_state = CTRL_ST_RUN /\ C37_Event)
       /\ VID_NOTIFY_PARM_CHANGE_MASK \in vid_notif' \ vid_notif => btn_short_press'
       /\ VID_NOTIFY_PARM_SELECT_MASK \in vid_notif' \ vid_notif => btn_long_press']_vars

\* a long press was detected in Fault and nothing was ever sent to vid_task
C37_Witness ==
  /\ ctrl_state = CTRL_ST_FAULT
  /\ ctrl_pc = "notif"
  /\ btn_long_press
  /\ obs_press.longs = 1
  /\ vid_notif = {}

\* a short press was detected in Startup and nothing was sent to vid_task
C37_InStartup ==
  /\ ctrl_state = CTRL_ST_STARTUP
  /\ ctrl_pc = "notif"
  /\ btn_short_press
  /\ vid_notif = {}

\* the documented range of the stored value of a group
C38_Range(group) ==
  CASE group = 0 -> 0..3
    [] group = 1 -> {parm_e_value[i] : i \in 1..NUM_E_PARM_VALS}
    [] group = 2 -> 0..1

\* the group index, the last index and the value are in range, and the
\* lookups of _vid_get_parm_string are inside their tables
C38_InRange ==
  C33_Session =>
    /\ cur_parm_index \in 0..2
    /\ cur_parm_max_index = C33_N(cur_parm_index) - 1
    /\ cur_parm_value \in 0..cur_parm_max_index
    /\ prev_parm_value \in 0..cur_parm_max_index
    /\ cur_parm_index = PARM_INDEX_EMISSIVITY => cur_parm_value + 1 \in DOMAIN parm_e_value
    /\ cur_parm_index = PARM_INDEX_UNITS => cur_parm_value < NUM_U_PARM_VALS

\* C38: after any sequence of short-presses, long-presses and timeouts the
\* group index is 0, 1 or 2, the last index is 3, 22, 1 for groups 0, 1, 2 and
\* the value lies between 0 and the last index; every value the session
\* stores, in RAM and in flash, lies in the documented range of its key.
C38_SessionInRange ==
  /\ []C38_InRange
  /\ [][\A g \in 0..2 :
          (vid_pc = "parm" /\ C14_Stored(ps', g) # C14_Stored(ps, g)) =>
            /\ C14_Stored(ps', g) \in C38_Range(g)
            /\ nvs' = [palette_marker |-> <<ps'.val_palette_marker>>,
                       emissivity |-> <<ps'.val_emissivity>>,
                       units |-> <<ps'.val_units>>]]_vars

\* the last emissivity of the table was reached by a short-press from 99 and
\* stored by the timeout
C38_Witness ==
  /\ obs_parm.last = "timeout"
  /\ cur_parm_index = 0
  /\ cur_parm_max_index = 3
  /\ ps.val_emissivity = 100
  /\ nvs.emissivity = <<100>>
  /\ lep_emissivity = 100
  /\ ps.val_units = 0

\* the session is at rest: group 0 with no deadline armed
C39_AtRest ==
  /\ C33_Session
  /\ cur_parm_index = PARM_INDEX_MARKER
  /\ parm_entry_timeout = 0

\* C39: whenever the session is at rest the live options equal the stored
\* settings: black-hot is bit 1 and the marker and spotmeter enables are bit 0
\* of the stored palette/marker value, and the Celsius flag is
\* (stored units # 0).
C39_RestMatchesStored ==
  C39_AtRest =>
    /\ gui_state.black_hot_palette = ((ps.val_palette_marker \div 2) % 2 = 1)
    /\ gui_state.min_max_enable = (ps.val_palette_marker % 2 = 1)
    /\ gui_state.spotmeter_enable = (ps.val_palette_marker % 2 = 1)
    /\ gui_state.temp_unit_C = (ps.val_units # 0)

\* at rest after a timeout that has stored a changed palette/marker value
C39_Witness ==
  /\ C39_AtRest
  /\ obs_parm.last = "timeout"
  /\ ps.val_palette_marker = 2
  /\ nvs.palette_marker = <<2>>
  /\ gui_state.black_hot_palette
  /\ ~gui_state.min_max_enable

\* the session is in group 1 or 2
C40_InGroup == C33_Session /\ cur_parm_index \in {PARM_INDEX_EMISSIVITY, PARM_INDEX_UNITS}

\* the session is in group 0 and the options of groups 1 and 2 are the
\* stored ones, in RAM and in flash
C40_Returned ==
  /\ cur_parm_index = PARM_INDEX_MARKER
  /\ gui_state.temp_unit_C = (ps.val_units # 0)
  /\ C33_Configured => lep_emissivity = ps.val_emissivity
  /\ nvs.units = <<ps.val_units>>
  /\ nvs.emissivity = <<ps.val_emissivity>>

\* C40: whenever the active group is 1 or 2 a deadline is armed, and the
\* session always eventually returns to group 0 with the pending change
\* stored.
C40_ReturnsToDefaultGroup ==
  /\ [](C40_InGroup => parm_entry_timeout = PARM_ENTRY_TIMEOUT_MSEC)
  /\ (C40_InGroup ~> C40_Returned)

\* back in group 0 by the timeout, the unit changed in group 2 stored
C40_Witness ==
  /\ obs_parm.last = "timeout"
  /\ cur_parm_index = PARM_INDEX_MARKER
  /\ parm_entry_timeout = 0
  /\ ps.val_units = 1
  /\ nvs.units = <<1>>
  /\ ps.val_emissivity = 97
  /\ gui_state.temp_unit_C
  /\ C33_Configured

====
